---- MODULE Spec2Model ----
(***************************************************************************)
(* BaconBot log engine: the batch scan (parseLog), the auto-detect scan    *)
(* (autoParseLog) and the live line handler (LogWatcher._processLine),     *)
(* one log line per step; the live-tail driver (LogWatcher.start,           *)
(* _readNew, stop) with the file it watches and the event loop it runs on. *)
(*                                                                         *)
(* Text that the code transforms (zone names, participant names) is a      *)
(* sequence of one-character strings; text that is only copied (items,     *)
(* guilds, classes) is a plain string.  An instant is a whole number of    *)
(* hours since Sunday 2026-03-08 00:00 UTC; an Invalid Date is NaN.        *)
(***************************************************************************)
EXTENDS Integers, Sequences, FiniteSets, TLC

(* ------------------------------ bounds -------------------------------- *)

\* lines one scan reads
MaxLines == 6
\* roster entries buffered in one /who block
MaxWho == 2
\* loot events one scan keeps
MaxLoot == 2
\* pieces written to the watched file
MaxBytes == 3
\* change notifications the filesystem raises
MaxNotify == 2
\* file-access failures the filesystem produces
MaxFailures == 1
\* calls of stop()
MaxStops == 2
\* lines of the file a batch parse is run over twice
MaxRerun == 5
\* the latest instant a converted timestamp was written at
MaxInstant == 30
\* raids saved in the database
MaxRaids == 2
\* rows the loot table holds
MaxRows == 2
\* truncations of the watched file
MaxTruncs == 1
\* ticks of the voice tracker's clock
MaxClock == 3
\* update notifications for a scheduled event that is already active
MaxUpdates == 1

(* ------------------------------- text --------------------------------- *)

UpperCase == <<"A","B","C","D","E","F","G","H","I","J","K","L","M",
               "N","O","P","Q","R","S","T","U","V","W","X","Y","Z">>
LowerCase == <<"a","b","c","d","e","f","g","h","i","j","k","l","m",
               "n","o","p","q","r","s","t","u","v","w","x","y","z">>

\* the lower-case letter of every upper-case letter, computed once
lowerOf ==
  [c \in {UpperCase[i] : i \in 1..26} |-> LowerCase[CHOOSE i \in 1..26 : UpperCase[i] = c]]

\* String.prototype.toLowerCase, one character
toLowerChar(c) == IF c \in DOMAIN lowerOf THEN lowerOf[c] ELSE c

\* String.prototype.toLowerCase
toLowerCase(s) == [i \in 1..Len(s) |-> toLowerChar(s[i])]

\* the characters \s matches that the model's texts hold
isSpace(c) == c = " "

\* String.prototype.includes
includes(s, sub) ==
  \E i \in 0..(Len(s) - Len(sub)) : SubSeq(s, i + 1, i + Len(sub)) = sub

RECURSIVE trimStart(_)
trimStart(s) ==
  IF s # <<>> /\ isSpace(Head(s)) THEN trimStart(Tail(s)) ELSE s

RECURSIVE trimEnd(_)
trimEnd(s) ==
  IF s # <<>> /\ isSpace(s[Len(s)]) THEN trimEnd(SubSeq(s, 1, Len(s) - 1)) ELSE s

\* String.prototype.trim
trim(s) == trimEnd(trimStart(s))

\* s.replace(/^the\s+/, '')
stripThe(s) ==
  IF Len(s) >= 4 /\ SubSeq(s, 1, 3) = <<"t","h","e">> /\ isSpace(s[4])
  THEN trimStart(SubSeq(s, 4, Len(s)))
  ELSE s

normalizeZone(name) == trim(stripThe(toLowerCase(name)))

\* the null of a text value (current zone before any zone entry)
null == <<"null">>

\* the null of a plain value (level, class, race, guild)
none == "null"

zoneMatchesOneWay(name, filters) ==
  IF name = null \/ name = <<>> \/ Len(filters) = 0 THEN FALSE
  ELSE \E i \in 1..Len(filters) : includes(normalizeZone(name), filters[i])

zoneMatchesFilters(zoneName, filters) ==
  IF zoneName = null \/ zoneName = <<>> \/ Len(filters) = 0 THEN FALSE
  ELSE LET norm == normalizeZone(zoneName) IN
       \E i \in 1..Len(filters) :
          includes(norm, filters[i]) \/ includes(filters[i], norm)

(* ------------------------------- time --------------------------------- *)

\* the time value of an Invalid Date
NaN == -1

\* whoBlockTime / whoBlockUTC before the first start marker (null)
noTime == NaN - 1

\* Date comparison: false as soon as one side is an Invalid Date
Lt(a, b) == a # NaN /\ b # NaN /\ a < b
Gt(a, b) == a # NaN /\ b # NaN /\ a > b
Leq(a, b) == a # NaN /\ b # NaN /\ a <= b

\* the month names MONTHS knows
MONTHS == {"Jan","Feb","Mar","Apr","May","Jun","Jul","Aug","Sep","Oct","Nov","Dec"}

\* the IANA rules of the modelled zones: local time minus UTC, in hours, at
\* UTC instant u (America/New_York springs forward at hour 7 of the epoch day)
TzOffset(tz, u) ==
  CASE tz = "UTC" -> 0
    [] tz = "America/Phoenix" -> 0 - 7
    [] tz = "Asia/Tokyo" -> 9
    [] tz = "America/New_York" -> IF u < 7 THEN 0 - 5 ELSE 0 - 4

\* the zone of the machine running a batch parse
SystemTz == "America/Phoenix"

\* new Date(year, month, day, h, min, s): the fields read in the system zone.
\* A timestamp text is [mon, hrs]: its month name and the hours its calendar
\* fields count from the epoch.
parseEQDate(ts) ==
  IF ts.mon \notin MONTHS THEN NaN
  ELSE ts.hrs - TzOffset(SystemTz, ts.hrs)

\* fakeUTC + (fakeUTC - localView(fakeUTC)); NaN when the month is unknown
localToUTC(hrs, monthKnown, timezone) ==
  IF ~monthKnown THEN NaN
  ELSE LET fakeUTC      == hrs
           localViewUTC == fakeUTC + TzOffset(timezone, fakeUTC)
           offset       == fakeUTC - localViewUTC
       IN  fakeUTC + offset

parseEQDateUTC(ts, timezone) == localToUTC(ts.hrs, ts.mon \in MONTHS, timezone)

getUTCHours(u) == u % 24
getUTCDay(u) == (u \div 24) % 7

RAID_UTC_DAYS == {0, 3, 5, 6}
RAID_UTC_START == 13
RAID_UTC_END == 17

isInRaidWindowLate(utcDate) ==
  /\ getUTCDay(utcDate) \in RAID_UTC_DAYS
  /\ getUTCHours(utcDate) >= RAID_UTC_START
  /\ getUTCHours(utcDate) <= RAID_UTC_END

isInRaidWindow(utcDate) ==
  /\ getUTCDay(utcDate) \in RAID_UTC_DAYS
  /\ getUTCHours(utcDate) >= RAID_UTC_START
  /\ getUTCHours(utcDate) < RAID_UTC_END

DAY_NAMES == <<"Sunday","Monday","Tuesday","Wednesday","Thursday","Friday","Saturday">>

APPROVED_ZONES == <<
  <<"P","l","a","n","e"," ","o","f"," ","F","e","a","r">>,
  <<"P","l","a","n","e"," ","o","f"," ","H","a","t","e">>,
  <<"S","e","b","i","l","i","s">>,
  <<"K","a","t","t","a"," ","C","a","s","t","e","l","l","u","m">>,
  <<"K","e","d","g","e"," ","K","e","e","p">>,
  <<"N","a","g","a","f","e","n","'","s"," ","L","a","i","r">>,
  <<"P","e","r","m","a","f","r","o","s","t">>,
  <<"V","e","e","s","h","a","n","'","s"," ","P","e","a","k">>,
  <<"T","i","m","o","r","o","u","s"," ","D","e","e","p">>,
  <<"D","r","e","a","d","l","a","n","d","s">>,
  <<"C","h","a","r","d","o","k">>,
  <<"D","r","a","g","o","n"," ","N","e","c","r","o","p","o","l","i","s">>,
  <<"K","a","e","l"," ","D","r","a","k","k","e","l">>,
  <<"T","e","m","p","l","e"," ","o","f"," ","V","e","e","s","h","a","n">>,
  <<"T","h","u","r","g","a","d","i","n">>,
  <<"A","k","h","e","v","a"," ","R","u","i","n","s">>,
  <<"G","r","e","i","g","'","s"," ","E","n","d">>,
  <<"A","c","r","y","l","i","a"," ","C","a","v","e","r","n","s">>,
  <<"S","s","r","a","e","s","h","z","a"," ","T","e","m","p","l","e">>,
  <<"U","m","b","r","a","l"," ","P","l","a","i","n","s">>,
  <<"V","e","x"," ","T","h","a","l">>,
  <<"T","h","e"," ","D","e","e","p">> >>

APPROVED_ZONE_FILTERS == [i \in 1..Len(APPROVED_ZONES) |-> normalizeZone(APPROVED_ZONES[i])]


(* ------------------------------ inputs -------------------------------- *)

Lyri == <<"L","y","r","i">>
LYRI == <<"L","Y","R","I">>
Bob  == <<"B","o","b">>

TheDeep     == <<"T","h","e"," ","D","e","e","p">>
FungusGrove == <<"F","u","n","g","u","s"," ","G","r","o","v","e">>
Zones == {TheDeep, FungusGrove}

\* UTC instants the logs of the model touch: Wed 14:00, Wed 16:00, Wed 17:00,
\* Thu 14:00, Fri 14:00 of the epoch week
UtcSamples == {86, 88, 89, 110, 134}

\* the timestamp texts a log written in zone tz holds: the local calendar
\* fields of the sampled instants, and one text with an unknown month name
stampOf(tz, u) == [mon |-> "Mar", hrs |-> u + TzOffset(tz, u)]
badStamp(tz) == [mon |-> "Foo", hrs |-> 86 + TzOffset(tz, 86)]
Stamps(tz) == {stampOf(tz, u) : u \in UtcSamples} \cup {badStamp(tz)}

\* the instant of a zone entry, footer, separator or roster entry is only
\* compared with the window, never stored: one text before the batch window,
\* one inside it, one unparseable
FewStamps(tz) == {stampOf(tz, 86), stampOf(tz, 88), badStamp(tz)}

noWho == [anon |-> TRUE, level |-> "0", cls |-> "", name |-> <<>>, race |-> "", guild |-> ""]

Content(kind, zone, who, player, item) ==
  [kind |-> kind, zone |-> zone, who |-> who, player |-> player, item |-> item]

\* the bracketed field of a /who line, the name, the optional race and guild
WhoTexts ==
  {[anon |-> FALSE, level |-> "60", cls |-> "Virtuoso", name |-> Lyri,
    race |-> "Vah Shir", guild |-> "Intervention"],
   [anon |-> TRUE, level |-> "0", cls |-> "", name |-> LYRI, race |-> "", guild |-> ""],
   [anon |-> FALSE, level |-> "55", cls |-> "Cleric", name |-> Bob,
    race |-> "", guild |-> "Intervention"]}

\* the contents whose line instant the code stores or buckets by: start
\* markers, loot, and text that matches no pattern (outside a roster block
\* auto mode opens the session of its date)
TimedContents ==
  {Content("start", <<>>, noWho, "", ""),
   Content("selfLoot", <<>>, noWho, "", "Shiknar Ichor"),
   Content("otherLoot", <<>>, noWho, "Risingdarkness", "Phase Spider Blood"),
   Content("other", <<>>, noWho, "", "")}

\* zone entries, footers, separators and roster entries: inside a roster
\* block their instant is not read, outside one a footer, separator or roster
\* entry is handled as text that matches no pattern
UntimedContents ==
  {Content("zone", z, noWho, "", "") : z \in Zones}
  \cup {Content("footer", z, noWho, "", "") : z \in Zones}
  \cup {Content("separator", <<>>, noWho, "", "")}
  \cup {Content("player", <<>>, w, "", "") : w \in WhoTexts}

\* a physical line: whether LINE_RE matches it, its timestamp text, its content
RawLine == [bracket |-> FALSE, ts |-> [mon |-> "", hrs |-> 0], content |-> Content("other", <<>>, noWho, "", "")]

\* every line with every timestamp text
Lines(tz) ==
  {RawLine}
  \cup {[bracket |-> TRUE, ts |-> t, content |-> c] :
           t \in Stamps(tz), c \in TimedContents \cup UntimedContents}

\* the lines a log holds
FewLines(tz) ==
  {RawLine}
  \cup {[bracket |-> TRUE, ts |-> t, content |-> c] : t \in Stamps(tz), c \in TimedContents}
  \cup {[bracket |-> TRUE, ts |-> t, content |-> c] : t \in FewStamps(tz), c \in UntimedContents}

\* the IANA zones a log owner is configured with
Timezones == {"UTC", "America/Phoenix", "Asia/Tokyo", "America/New_York"}

\* the lines a log holds, per zone of its owner, computed once
logLines == [tz \in Timezones |-> FewLines(tz)]

\* the zone names the zone matcher is called with: names a zone-entry or
\* footer line can carry (one character at least), among them one that is
\* only the article and one with a blank before the article, and the empty
\* name
Deep == <<"D","e","e","p">>
TimorousDeep == <<"T","i","m","o","r","o","u","s"," ","D","e","e","p">>
TheOnly == <<"T","h","e"," ">>
SpaceTheDeep == <<" ">> \o TheDeep
ZoneNames ==
  {TheDeep, FungusGrove, Deep, TimorousDeep, TheOnly, SpaceTheDeep,
   <<"T","H","E"," ","D","E","E","P">>, <<"G","r","o","v","e"," ">>,
   <<"S","e","b","i","l","i","s">>, <<>>}

\* the filter strings a caller of parseLog passes in opts.zones
UserZones ==
  {Deep, TheDeep, TimorousDeep, TheOnly,
   <<"f","u","n","g","u","s">>, <<"H","a","t","e">>}

\* opts.zones: no filter, one filter, two filters
UserZoneLists ==
  {<<>>} \cup {<<f>> : f \in UserZones} \cup {<<f, g>> : f \in UserZones, g \in UserZones}

\* zoneMatchesFilters(z, APPROVED_ZONE_FILTERS) for the zone names the logs
\* hold, computed once
approvedVerdict == [z \in Zones |-> zoneMatchesFilters(z, APPROVED_ZONE_FILTERS)]

\* !!zoneName && zoneMatchesFilters(zoneName, APPROVED_ZONE_FILTERS)
isApprovedZone(zoneName) == zoneName # null /\ approvedVerdict[zoneName]

\* the Discord members of the guild, by id
Members == {"m1", "m2"}

\* activeRaid = null
noRaid == [raidId |-> 0]

\* { raidId, eventId: newEvent.id, members: new Map() }
newRaid(raidId) == [raidId |-> raidId, eventId |-> 1, members |-> <<>>]

(* ------------------------------- state -------------------------------- *)

VARIABLES
  mode,          \* "batch" (parseLog), "auto" (autoParseLog), "live" (LogWatcher)
  startTime,     \* batch: opts.startTime
  endTime,       \* batch: opts.endTime
  zoneFilters,   \* batch: zones.map(normalizeZone)
  timezone,      \* auto, live: the log owner's IANA zone
  characterName, \* the log owner's character ("" when not configured)
  status,        \* "scanning", "done" (result returned), "crashed" (exception thrown)
  branch,        \* the branch the last processed line took
  currentZone,
  inWhoBlock,
  whoBlockTime,  \* whoBlockTime / whoBlockUTC
  whoPlayers,
  lineCount,
  attendanceMap, \* batch, live: Map in insertion order, <<[key, val], ...>>
  lootEvents,    \* batch, live
  zones,         \* live: Set in insertion order
  sessionMap,    \* auto: Map in insertion order, <<[key, val], ...>>
  result,        \* what the scan returned
  seen,          \* history: the sightings flushed so far, [scope, name, t]
  interrupted,   \* history: the pending buffer holds entries that a zone-entry
                 \* line of the log followed before any footer
  driver,        \* tail: the LogWatcher driver and the file it watches, one record
  log,           \* rerun: the lines the first run has read, in file order
  again,         \* rerun: what the second run over the same file returned
  matcher,       \* match: [userZones, zoneName, verdict]
  clock,         \* clock: [tsStr, utc, written]
  store,         \* store: [raidsTable, attendanceTable, lootTable, call, returned,
                 \* repeated]
  voice          \* voice: [event, activeRaid, raids, attendance, channel, now, ...]

config == <<mode, startTime, endTime, zoneFilters, timezone, characterName>>
scan == <<currentZone, inWhoBlock, whoBlockTime, whoPlayers>>
replay == <<log, again>>
apart == <<matcher, clock, store, voice>>

\* tail: the bytes of the watched file, oldest first
file == driver.file
\* tail: this.watcher, "null" or "open"
watcher == driver.watcher
\* tail: this.offset
offset == driver.offset
\* tail: this.pendingChunk
pendingChunk == driver.pendingChunk
\* tail: the timeouts of this driver the event loop holds armed
timers == driver.timers
\* tail: the timeout this._debounce names is still armed
debounceLive == driver.debounceLive
\* tail: change notifications raised and not yet delivered
events == driver.events
\* tail: the lines of the pass in progress not yet handed over
todo == driver.todo
\* history: the lines handed to _processLine, in order
classified == driver.classified
\* history: the file's length when start() read it
startSize == driver.startSize
\* history: the lowest file position a read began at
lowestRead == driver.lowestRead
\* history: file-access failures so far
failures == driver.failures
\* history: 'error' events emitted so far
errors == driver.errors
\* history: 'zone', 'attendance' and 'loot' events emitted so far
emits == driver.emits
\* history: read passes begun so far
passes == driver.passes
\* history: calls of stop() so far
stops == driver.stops
\* history: change notifications raised so far
notified == driver.notified
\* history: truncations of the watched file so far
truncs == driver.truncs
\* history, kept in the runs with truncation: the bytes the read passes took
\* from the file, in order
read == driver.read
\* history: passes that found the file shorter than the offset
shrunk == driver.shrunk
\* history, kept in the runs with truncation: a pass read the file after an
\* earlier pass had failed
retried == driver.retried

\* voice: the scheduled event as Discord holds it
event == voice.event
\* voice: activeRaid, noRaid or [raidId, eventId, members]
activeRaid == voice.activeRaid
\* voice: the rows of table raids the tracker created
raids == voice.raids
\* voice: the rows of table attendance the tracker wrote
voiceAttendance == voice.attendance
\* voice: the members in the raid voice channel
channel == voice.channel
\* voice: what new Date() returns
wallClock == voice.now
\* history: update notifications received while the event was active
updates == voice.updates
\* history: when each member was first taken into the running raid
joined == voice.joined
\* history: when the event completed, and who was in the channel then
endedAt == voice.endedAt
presentAtEnd == voice.presentAtEnd

\* match: opts.zones, the zone filters as the user gave them
userZones == matcher.userZones
\* match: the name the zone matcher was last called with
zoneName == matcher.zoneName
\* match: what the zone matcher last returned
verdict == matcher.verdict
\* clock: the timestamp text parseEQDateUTC was last called with
tsStr == clock.tsStr
\* clock: the instant parseEQDateUTC last returned
utc == clock.utc
\* history: the instant the game wrote that timestamp at
written == clock.written
\* store: the number of rows of table raids (ids 1..n)
raidsTable == store.raidsTable
\* store: the rows of table attendance, oldest first
attendanceTable == store.attendanceTable
\* store: the rows of table loot, oldest first
lootTable == store.lootTable
\* store: the last request, [op, raidId, attendance, loot]
call == store.call
\* store: what the last request returned, [raidId, newLoot]
returned == store.returned
\* history: the last request repeats the request before it
repeated == store.repeated
vars == <<config, status, branch, scan, lineCount, attendanceMap, lootEvents,
          zones, sessionMap, result, seen, interrupted, driver, replay, apart>>

(* ------------------------------- maps --------------------------------- *)

mapHas(m, k) == \E i \in 1..Len(m) : m[i].key = k
mapIndex(m, k) == CHOOSE i \in 1..Len(m) : m[i].key = k
mapGet(m, k) == m[mapIndex(m, k)].val
mapSet(m, k, v) ==
  IF mapHas(m, k) THEN [m EXCEPT ![mapIndex(m, k)].val = v]
  ELSE Append(m, [key |-> k, val |-> v])
mapValues(m) == [i \in 1..Len(m) |-> m[i].val]

\* Set.prototype.add on a Set kept in insertion order
setAdd(s, x) == IF \E i \in 1..Len(s) : s[i] = x THEN s ELSE Append(s, x)

(* --------------------------- roster entries --------------------------- *)

\* parseInt(parts[0], 10) || null
parseLevel(text) == IF text = "0" THEN none ELSE text

orNull(text) == IF text = "" THEN none ELSE text

\* WHO_PLAYER_RE's groups turned into the buffered entry
whoEntry(w) ==
  [name  |-> w.name,
   level |-> IF w.anon THEN none ELSE parseLevel(w.level),
   class |-> IF w.anon THEN none ELSE orNull(w.cls),
   race  |-> orNull(w.race),
   guild |-> orNull(w.guild)]

attendanceKeyExact(p) == p.name

\* const key = p.name.toLowerCase()
attendanceKey(p) == toLowerCase(p.name)

newRecord(p, t) ==
  [name |-> p.name, level |-> p.level, class |-> p.class, race |-> p.race,
   guild |-> p.guild, firstSeen |-> t, lastSeen |-> t]

upsertOverwrite(m, p, t) ==
  LET key == attendanceKey(p) IN
  IF ~mapHas(m, key) THEN mapSet(m, key, newRecord(p, t))
  ELSE LET existing == mapGet(m, key) IN
       mapSet(m, key,
         [existing EXCEPT
            !.level = p.level, !.class = p.class, !.race = p.race, !.guild = p.guild,
            !.firstSeen = IF Lt(t, existing.firstSeen) THEN t ELSE @,
            !.lastSeen  = IF Gt(t, existing.lastSeen)  THEN t ELSE @])

\* the loop body of a batch or auto flush, for one buffered entry
upsert(m, p, t) ==
  LET key == attendanceKey(p) IN
  IF ~mapHas(m, key) THEN mapSet(m, key, newRecord(p, t))
  ELSE LET existing == mapGet(m, key) IN
       mapSet(m, key,
         [existing EXCEPT
            !.firstSeen = IF Lt(t, existing.firstSeen) THEN t ELSE @,
            !.lastSeen  = IF Gt(t, existing.lastSeen)  THEN t ELSE @])

\* the loop body of a live flush, for one buffered entry
upsertLive(m, p, t) ==
  LET key == attendanceKey(p) IN
  IF ~mapHas(m, key) THEN mapSet(m, key, newRecord(p, t))
  ELSE LET existing == mapGet(m, key) IN
       mapSet(m, key,
         [existing EXCEPT !.lastSeen = IF Gt(t, existing.lastSeen) THEN t ELSE @])

RECURSIVE flush(_, _, _)
\* for (const p of whoPlayers) { ... } of parseLog and autoParseLog
flush(m, players, t) ==
  IF players = <<>> THEN m
  ELSE flush(upsert(m, Head(players), t), Tail(players), t)

RECURSIVE flushLive(_, _, _)
\* for (const p of this.whoPlayers) { ... } of _processLine
flushLive(m, players, t) ==
  IF players = <<>> THEN m
  ELSE flushLive(upsertLive(m, Head(players), t), Tail(players), t)

pushUnique(arr, x) ==
  IF \E i \in 1..Len(arr) : arr[i] = x THEN arr ELSE Append(arr, x)

\* Array.prototype.push
push(arr, x) == Append(arr, x)

lootEventUnnamed(player, item, t, zone) ==
  [playerName |-> "You", itemName |-> item, timestamp |-> t, zone |-> zone]

lootEvent(player, item, t, zone) ==
  [playerName |-> player, itemName |-> item, timestamp |-> t, zone |-> zone]

(* ----------------------------- parseLog ------------------------------- *)

whoZoneCurrent(s, c) == s.currentZone

\* const whoZone = footerMatch[1]: the zone a roster block is gated on
whoZone(s, c) == c.zone

insideBlockUnlessLoot(s, c) == s.inWhoBlock /\ c.kind \notin {"selfLoot", "otherLoot"}

\* if (inWhoBlock) { ... continue; }: every line met inside a roster block
\* ends in this branch
insideBlock(s, c) == s.inWhoBlock

\* the scan state as one value, so that a line's effect is one expression
here ==
  [currentZone |-> currentZone, inWhoBlock |-> inWhoBlock,
   whoBlockTime |-> whoBlockTime, whoPlayers |-> whoPlayers,
   attendanceMap |-> attendanceMap, lootEvents |-> lootEvents,
   zones |-> zones, sessionMap |-> sessionMap, branch |-> branch]

\* one iteration of parseLog's for-await loop, after lineCount++
parseLogLine(s, line) ==
  LET ts == parseEQDate(line.ts)
      c  == line.content
  IN
  IF ~line.bracket THEN [s EXCEPT !.branch = "noMatch"]
  ELSE IF Lt(ts, startTime) \/ Gt(ts, endTime) THEN [s EXCEPT !.branch = "outOfWindow"]
  ELSE IF c.kind = "zone" THEN
    [s EXCEPT !.currentZone = c.zone, !.inWhoBlock = FALSE, !.branch = "zone"]
  ELSE IF c.kind = "start" THEN
    [s EXCEPT !.inWhoBlock = TRUE, !.whoBlockTime = ts, !.whoPlayers = <<>>,
              !.branch = "start"]
  ELSE IF insideBlock(s, c) THEN
    CASE c.kind = "separator" -> [s EXCEPT !.branch = "separator"]
      [] c.kind = "footer" ->
           IF zoneMatchesFilters(whoZone(s, c), zoneFilters)
           THEN [s EXCEPT !.inWhoBlock = FALSE,
                          !.attendanceMap = flush(@, s.whoPlayers, s.whoBlockTime),
                          !.branch = "flush"]
           ELSE [s EXCEPT !.inWhoBlock = FALSE, !.branch = "footerSkip"]
      [] c.kind = "player" ->
           [s EXCEPT !.whoPlayers = Append(@, whoEntry(c.who)), !.branch = "player"]
      [] OTHER -> [s EXCEPT !.branch = "blockOther"]
  ELSE IF ~zoneMatchesFilters(s.currentZone, zoneFilters) THEN
    [s EXCEPT !.branch = "lootGate"]
  ELSE
    CASE c.kind = "selfLoot" ->
           [s EXCEPT !.lootEvents = push(@, lootEvent(characterName, c.item, ts, s.currentZone)),
                     !.branch = "selfLoot"]
      [] c.kind = "otherLoot" ->
           [s EXCEPT !.lootEvents = push(@, lootEvent(c.player, c.item, ts, s.currentZone)),
                     !.branch = "otherLoot"]
      [] OTHER -> [s EXCEPT !.branch = "inert"]

(* --------------------------- autoParseLog ----------------------------- *)

sessionKeyMonth(utcDate) == utcDate \div (24 * 31)

\* utcDate.toISOString().slice(0, 10): the UTC calendar day, as a day number
sessionKey(utcDate) == utcDate \div 24

\* getSession(utcDate): the session map after the call
getSession(sm, utcDate) ==
  LET key == sessionKey(utcDate)
      made == IF mapHas(sm, key) THEN sm
              ELSE mapSet(sm, key,
                     [date |-> key, dayName |-> DAY_NAMES[getUTCDay(utcDate) + 1],
                      attendanceMap |-> <<>>, loot |-> <<>>, zones |-> <<>>,
                      firstSeen |-> utcDate, lastSeen |-> utcDate])
      s == mapGet(made, key)
  IN mapSet(made, key, [s EXCEPT !.lastSeen = IF Gt(utcDate, s.lastSeen) THEN utcDate ELSE @])

\* session.zones.add(zone) on the session getSession(utcDate) returned
sessionAddZone(sm, utcDate, zone) ==
  LET key == sessionKey(utcDate) IN
  mapSet(sm, key, [mapGet(sm, key) EXCEPT !.zones = setAdd(@, zone)])

\* session.loot.push(event)
sessionPushLoot(sm, utcDate, ev) ==
  LET key == sessionKey(utcDate) IN
  mapSet(sm, key, [mapGet(sm, key) EXCEPT !.loot = push(@, ev)])

\* the flush loop on the session getSession(whoBlockUTC) returned
sessionFlush(sm, utcDate, players) ==
  LET key == sessionKey(utcDate) IN
  mapSet(sm, key, [mapGet(sm, key) EXCEPT !.attendanceMap = flush(@, players, utcDate)])

\* one iteration of autoParseLog's for-await loop, after lineCount++
autoParseLine(s, line) ==
  LET utcTs == parseEQDateUTC(line.ts, timezone)
      c     == line.content
  IN
  IF ~line.bracket THEN [s EXCEPT !.branch = "noMatch"]
  ELSE IF utcTs = NaN THEN [s EXCEPT !.branch = "throw"]
  ELSE IF c.kind = "zone" THEN
    [s EXCEPT !.currentZone = c.zone, !.inWhoBlock = FALSE, !.branch = "zone"]
  ELSE IF c.kind = "start" THEN
    IF isInRaidWindow(utcTs)
    THEN [s EXCEPT !.inWhoBlock = TRUE, !.whoBlockTime = utcTs, !.whoPlayers = <<>>,
                   !.branch = "start"]
    ELSE [s EXCEPT !.branch = "startSkip"]
  ELSE IF insideBlock(s, c) THEN
    CASE c.kind = "separator" -> [s EXCEPT !.branch = "separator"]
      [] c.kind = "footer" ->
           IF isApprovedZone(whoZone(s, c)) /\ isInRaidWindow(s.whoBlockTime)
           THEN [s EXCEPT !.inWhoBlock = FALSE,
                          !.sessionMap =
                             sessionFlush(
                               sessionAddZone(getSession(@, s.whoBlockTime), s.whoBlockTime, whoZone(s, c)),
                               s.whoBlockTime, s.whoPlayers),
                          !.branch = "flush"]
           ELSE [s EXCEPT !.inWhoBlock = FALSE, !.branch = "footerSkip"]
      [] c.kind = "player" ->
           [s EXCEPT !.whoPlayers = Append(@, whoEntry(c.who)), !.branch = "player"]
      [] OTHER -> [s EXCEPT !.branch = "blockOther"]
  ELSE IF ~isInRaidWindow(utcTs) \/ ~isApprovedZone(s.currentZone) THEN
    [s EXCEPT !.branch = "lootGate"]
  ELSE
    LET sm == sessionAddZone(getSession(s.sessionMap, utcTs), utcTs, s.currentZone) IN
    IF c.kind = "selfLoot" /\ characterName # "" THEN
      [s EXCEPT !.sessionMap =
                   sessionPushLoot(sm, utcTs, lootEvent(characterName, c.item, utcTs, s.currentZone)),
                !.branch = "selfLoot"]
    ELSE IF c.kind = "otherLoot" THEN
      [s EXCEPT !.sessionMap =
                   sessionPushLoot(sm, utcTs, lootEvent(c.player, c.item, utcTs, s.currentZone)),
                !.branch = "otherLoot"]
    ELSE [s EXCEPT !.sessionMap = sm, !.branch = "inert"]

\* .filter(s => s.attendanceMap.size > 0 || s.loot.length > 0)
nonEmptySessions(ss) ==
  SelectSeq(ss, LAMBDA s : Len(s.attendanceMap) > 0 \/ Len(s.loot) > 0)

\* .map(s => ({ date, dayName, zones, attendance, loot, firstSeen, lastSeen }))
flatSession(s) ==
  [date |-> s.date, dayName |-> s.dayName, zones |-> s.zones,
   attendance |-> mapValues(s.attendanceMap), loot |-> s.loot,
   firstSeen |-> s.firstSeen, lastSeen |-> s.lastSeen]

RECURSIVE insertByDate(_, _)
insertByDate(sorted, x) ==
  IF sorted = <<>> THEN <<x>>
  ELSE IF Head(sorted).date <= x.date THEN <<Head(sorted)>> \o insertByDate(Tail(sorted), x)
  ELSE <<x>> \o sorted

RECURSIVE sortByDateFrom(_, _)
sortByDateFrom(sorted, rest) ==
  IF rest = <<>> THEN sorted
  ELSE sortByDateFrom(insertByDate(sorted, Head(rest)), Tail(rest))

unsorted(ss) == ss

\* .sort((a, b) => a.date.localeCompare(b.date)), a stable sort
sortByDate(ss) == sortByDateFrom(<<>>, ss)

\* the sessions array autoParseLog returns
autoSessions(sm) ==
  LET kept == nonEmptySessions(mapValues(sm)) IN
  sortByDate([i \in 1..Len(kept) |-> flatSession(kept[i])])

(* ---------------------- LogWatcher._processLine ----------------------- *)

processLine(s, line) ==
  LET utcTs == parseEQDateUTC(line.ts, timezone)
      c     == line.content
  IN
  IF ~line.bracket THEN [s EXCEPT !.branch = "noMatch"]
  ELSE IF utcTs = NaN THEN [s EXCEPT !.branch = "throw"]
  ELSE IF c.kind = "zone" THEN
    [s EXCEPT !.currentZone = c.zone, !.zones = setAdd(@, c.zone),
              !.inWhoBlock = FALSE, !.branch = "zone"]
  ELSE IF c.kind = "start" THEN
    IF isInRaidWindow(utcTs)
    THEN [s EXCEPT !.inWhoBlock = TRUE, !.whoBlockTime = utcTs, !.whoPlayers = <<>>,
                   !.branch = "start"]
    ELSE [s EXCEPT !.branch = "startSkip"]
  ELSE IF insideBlock(s, c) THEN
    CASE c.kind = "separator" -> [s EXCEPT !.branch = "separator"]
      [] c.kind = "footer" ->
           IF ~isApprovedZone(whoZone(s, c))
           THEN [s EXCEPT !.inWhoBlock = FALSE, !.branch = "footerSkip"]
           ELSE [s EXCEPT !.inWhoBlock = FALSE,
                          !.attendanceMap = flushLive(@, s.whoPlayers, s.whoBlockTime),
                          !.branch = "flush"]
      [] c.kind = "player" ->
           [s EXCEPT !.whoPlayers = Append(@, whoEntry(c.who)), !.branch = "player"]
      [] OTHER -> [s EXCEPT !.branch = "blockOther"]
  ELSE IF ~isInRaidWindow(utcTs) \/ ~isApprovedZone(s.currentZone) THEN
    [s EXCEPT !.branch = "lootGate"]
  ELSE IF c.kind = "selfLoot" /\ characterName # "" THEN
    [s EXCEPT !.lootEvents = push(@, lootEvent(characterName, c.item, utcTs, s.currentZone)),
              !.branch = "selfLoot"]
  ELSE IF c.kind = "otherLoot" THEN
    [s EXCEPT !.lootEvents = push(@, lootEvent(c.player, c.item, utcTs, s.currentZone)),
              !.branch = "otherLoot"]
  ELSE [s EXCEPT !.branch = "inert"]

everyPlayer(m, players, t) == players

RECURSIVE newPlayers(_, _, _)
\* const newPlayers = []; ... if (!existing) { ...; newPlayers.push(p); }
newPlayers(m, players, t) ==
  IF players = <<>> THEN <<>>
  ELSE LET p == Head(players) IN
       IF mapHas(m, attendanceKey(p))
       THEN newPlayers(upsertLive(m, p, t), Tail(players), t)
       ELSE <<p>> \o newPlayers(upsertLive(m, p, t), Tail(players), t)

\* the events _processLine emits on a line read in scan state s, n being the
\* scan state it leaves
emitted(s, line, n) ==
  CASE n.branch = "zone" ->
         <<[type |-> "zone", zone |-> n.currentZone,
            timestamp |-> parseEQDateUTC(line.ts, timezone)]>>
    [] n.branch = "flush" ->
         <<[type |-> "attendance", zone |-> whoZone(s, line.content),
            total |-> Len(n.attendanceMap),
            newPlayers |-> newPlayers(s.attendanceMap, s.whoPlayers, s.whoBlockTime),
            allPlayers |-> [i \in 1..Len(n.attendanceMap) |-> n.attendanceMap[i].key],
            timestamp |-> s.whoBlockTime]>>
    [] n.branch \in {"selfLoot", "otherLoot"} ->
         LET lootItem == n.lootEvents[Len(n.lootEvents)] IN
         <<[type |-> "loot", playerName |-> lootItem.playerName,
            itemName |-> lootItem.itemName, timestamp |-> lootItem.timestamp,
            zone |-> lootItem.zone]>>
    [] OTHER -> <<>>

published(s, line) == emitted(s, line, processLine(s, line))

(* ------------------------------ actions ------------------------------- *)

RECURSIVE sessionLoot(_)
sessionLoot(sm) == IF sm = <<>> THEN 0 ELSE Len(Head(sm).val.loot) + sessionLoot(Tail(sm))

\* the scope a flushed sighting lands in: the date bucket in auto mode, the
\* whole run otherwise
runScope == NaN - 2
scopeOf(t) == IF mode = "auto" THEN sessionKey(t) ELSE runScope

countMatched(n, line) == IF line.bracket THEN n + 1 ELSE n

\* lineCount++ at the top of the loop body, before the line is matched
countLine(n, line) == n + 1

\* the state after a line: n is the scan state the handler leaves
Consume(line, n) ==
  /\ Len(n.whoPlayers) <= MaxWho
  /\ Len(n.lootEvents) + sessionLoot(n.sessionMap) <= MaxLoot
  /\ lineCount' = countLine(lineCount, line)
  /\ currentZone' = n.currentZone
  /\ inWhoBlock' = n.inWhoBlock
  /\ whoBlockTime' = n.whoBlockTime
  /\ whoPlayers' = n.whoPlayers
  /\ attendanceMap' = n.attendanceMap
  /\ lootEvents' = n.lootEvents
  /\ zones' = n.zones
  /\ sessionMap' = n.sessionMap
  /\ branch' = n.branch
  /\ status' = IF n.branch = "throw" THEN "crashed" ELSE status
  /\ seen' = IF n.branch = "flush"
             THEN seen \cup {[scope |-> scopeOf(whoBlockTime), name |-> whoPlayers[i].name,
                              t |-> whoBlockTime] : i \in 1..Len(whoPlayers)}
             ELSE seen
  /\ interrupted' =
       IF n.branch = "start" THEN FALSE
       ELSE IF line.bracket /\ line.content.kind = "zone" /\ inWhoBlock /\ whoPlayers # <<>>
            THEN TRUE
            ELSE interrupted
  /\ UNCHANGED <<config, result>>

\* no request made yet, nothing returned yet
noCall == [op |-> "none", raidId |-> 0, attendance |-> <<>>, loot |-> <<>>]
noReturn == [raidId |-> 0, newLoot |-> 0]

\* startSize and lowestRead before start() and before the first read
noSize == MaxBytes + 1

noResult == [attendance |-> <<>>, loot |-> <<>>, sessions |-> <<>>, lineCount |-> 0]

\* the calls the model makes: [mode, timezone, characterName]
Calls ==
  {<<"batch", SystemTz, "Lyri">>,
   <<"auto", "Asia/Tokyo", "Lyri">>,
   <<"live", "America/Phoenix", "Lyri">>, <<"live", "Asia/Tokyo", "">>,
   <<"tail", "America/Phoenix", "Lyri">>, <<"trunc", "America/Phoenix", "Lyri">>,
   <<"rerun", SystemTz, "Lyri">>,
   <<"pair", "America/Phoenix", "Lyri">>,
   <<"match", SystemTz, "Lyri">>,
   <<"clock", "UTC", "Lyri">>, <<"clock", "America/Phoenix", "Lyri">>,
   <<"clock", "Asia/Tokyo", "Lyri">>, <<"clock", "America/New_York", "Lyri">>,
   <<"store", SystemTz, "Lyri">>,
   <<"voice", "UTC", "Lyri">>}

InitOf(modes) ==
  /\ \E c \in Calls : c[1] \in modes /\ mode = c[1] /\ timezone = c[2] /\ characterName = c[3]
  /\ \E given \in (IF mode = "match" THEN UserZoneLists ELSE {<<>>}) :
        matcher = [userZones |-> given, zoneName |-> null, verdict |-> FALSE]
  /\ IF mode \in {"batch", "rerun"}
     THEN /\ startTime = 88
          /\ endTime = 89
          /\ zoneFilters = <<normalizeZone(<<"D","e","e","p">>)>>
     ELSE /\ startTime = noTime
          /\ endTime = noTime
          /\ zoneFilters = [i \in 1..Len(userZones) |-> normalizeZone(userZones[i])]
  /\ status = "scanning"
  /\ branch = "none"
  /\ currentZone = null
  /\ inWhoBlock = FALSE
  /\ whoBlockTime = noTime
  /\ whoPlayers = <<>>
  /\ lineCount = 0
  /\ attendanceMap = <<>>
  /\ lootEvents = <<>>
  /\ zones = <<>>
  /\ sessionMap = <<>>
  /\ result = noResult
  /\ seen = {}
  /\ interrupted = FALSE
  /\ driver = [file |-> <<>>, watcher |-> "null", offset |-> 0, pendingChunk |-> <<>>,
               timers |-> 0, debounceLive |-> FALSE, events |-> 0, todo |-> <<>>,
               classified |-> <<>>, startSize |-> noSize, lowestRead |-> noSize,
               failures |-> 0, errors |-> 0, emits |-> 0, passes |-> 0, stops |-> 0,
               notified |-> 0, truncs |-> 0, read |-> <<>>,
               shrunk |-> 0, retried |-> FALSE]
  /\ log = <<>>
  /\ again = noResult
  /\ clock = [tsStr |-> RawLine.ts, utc |-> noTime, written |-> noTime]
  /\ store = [raidsTable |-> 0, attendanceTable |-> <<>>, lootTable |-> <<>>,
              call |-> noCall, returned |-> noReturn, repeated |-> FALSE]
  /\ \E present \in (IF mode = "voice" THEN SUBSET Members ELSE {{}}) :
        voice = [event |-> "scheduled", activeRaid |-> noRaid, raids |-> <<>>,
                 attendance |-> <<>>, channel |-> present, now |-> 0, updates |-> 0,
                 joined |-> [m \in Members |-> noTime], endedAt |-> noTime,
                 presentAtEnd |-> {}]

Init == InitOf({"batch", "auto", "live"})
InitBatch == InitOf({"batch"})
InitAuto == InitOf({"auto"})
InitLive == InitOf({"live"})

\* parseLog reads the next line of the file
ParseLogLine ==
  /\ mode = "batch" /\ status = "scanning" /\ lineCount < MaxLines
  /\ \E line \in logLines[SystemTz] : Consume(line, parseLogLine(here, line))
  /\ UNCHANGED <<driver, replay, apart>>

\* parseLog reaches the end of the file and returns
ParseLogReturn ==
  /\ mode = "batch" /\ status = "scanning"
  /\ status' = "done"
  /\ result' = [noResult EXCEPT !.attendance = mapValues(attendanceMap),
                                !.loot = lootEvents, !.lineCount = lineCount]
  /\ UNCHANGED <<config, branch, scan, lineCount, attendanceMap, lootEvents, zones,
                 sessionMap, seen, interrupted, driver, replay, apart>>

\* autoParseLog reads the next line of the file
AutoParseLine ==
  /\ mode = "auto" /\ status = "scanning" /\ lineCount < MaxLines
  /\ \E line \in logLines[timezone] : Consume(line, autoParseLine(here, line))
  /\ UNCHANGED <<driver, replay, apart>>

\* autoParseLog reaches the end of the file and returns
AutoParseReturn ==
  /\ mode = "auto" /\ status = "scanning"
  /\ status' = "done"
  /\ result' = [noResult EXCEPT !.sessions = autoSessions(sessionMap),
                                !.lineCount = lineCount]
  /\ UNCHANGED <<config, branch, scan, lineCount, attendanceMap, lootEvents, zones,
                 sessionMap, seen, interrupted, driver, replay, apart>>

\* the live watcher hands the next complete line to _processLine
ProcessLine ==
  /\ mode = "live" /\ status = "scanning" /\ lineCount < MaxLines
  /\ \E line \in logLines[timezone] : Consume(line, processLine(here, line))
  /\ UNCHANGED <<driver, replay, apart>>

Next ==
  \/ ParseLogLine
  \/ ParseLogReturn
  \/ AutoParseLine
  \/ AutoParseReturn
  \/ ProcessLine

Spec == Init /\ [][Next]_vars

\* one mode at a time
SpecBatch == InitBatch /\ [][ParseLogLine \/ ParseLogReturn]_vars
SpecAuto == InitAuto /\ [][AutoParseLine \/ AutoParseReturn]_vars
SpecLive == InitLive /\ [][ProcessLine]_vars

(* ------------------------- live-tail driver --------------------------- *)

\* what the watched file is written in: a whole zone-entry line with a
\* parseable timestamp ("Z"), the same line with an unknown month name ("X"),
\* a line feed, a carriage return, and the two bytes of one UTF-8 character
Pieces == {"Z", "X", "LF", "CR", "C3", "A9"}

RECURSIVE decode(_)
\* buf.toString('utf8'): a lead byte with its continuation byte is one
\* character, a lead byte without it or a continuation byte alone is U+FFFD
decode(b) ==
  IF b = <<>> THEN <<>>
  ELSE IF Head(b) = "C3"
       THEN IF Len(b) >= 2 /\ b[2] = "A9"
            THEN <<"E9">> \o decode(Tail(Tail(b)))
            ELSE <<"FFFD">> \o decode(Tail(b))
  ELSE IF Head(b) = "A9" THEN <<"FFFD">> \o decode(Tail(b))
  ELSE <<Head(b)>> \o decode(Tail(b))

RECURSIVE splitFrom(_, _)
splitFrom(cur, rest) ==
  IF rest = <<>> THEN <<cur>>
  ELSE IF Head(rest) = "LF" THEN <<cur>> \o splitFrom(<<>>, Tail(rest))
  ELSE IF Head(rest) = "CR" /\ Len(rest) >= 2 /\ rest[2] = "LF"
       THEN <<cur>> \o splitFrom(<<>>, Tail(Tail(rest)))
  ELSE splitFrom(Append(cur, Head(rest)), Tail(rest))

\* text.split(/\r?\n/)
split(text) == splitFrom(<<>>, text)

\* LINE_RE and the content patterns applied to a line's text: the text is a
\* log line when it begins with a timestamp and holds no carriage return, a
\* zone entry when nothing follows the zone-entry sentence
lineOf(text) ==
  IF text # <<>> /\ Head(text) \in {"Z", "X"}
     /\ \A i \in 2..Len(text) : text[i] # "CR"
  THEN [bracket |-> TRUE,
        ts |-> IF Head(text) = "Z" THEN stampOf(timezone, 86) ELSE badStamp(timezone),
        content |-> IF Len(text) = 1 THEN Content("zone", TheDeep, noWho, "", "")
                    ELSE Content("other", <<>>, noWho, "", "")]
  ELSE RawLine

armNoClear(n, live) == n + 1

\* if (this._debounce) clearTimeout(this._debounce); then setTimeout:
\* the armed timeouts after a 'change' notification
armDebounce(n, live) == (IF live THEN n - 1 ELSE n) + 1

keepTimers(n, live) == n

\* if (this._debounce) clearTimeout(this._debounce) of stop()
stopTimers(n, live) == IF live THEN n - 1 ELSE n

\* the call stack of the driver is empty: no read pass is in progress
idle == todo = <<>>

startOffsetZero(size) == 0

\* this.offset = stat.size
startOffset(size) == size

\* the driver runs: alone, or beside a process that also truncates the file
tailing == mode = "tail" \/ mode = "trunc"

\* what the other process writes: in the runs with truncation whole lines only
Written == IF mode = "trunc" THEN {"Z", "LF"} ELSE Pieces

sizeDiffers(size, off) == size # off

\* the negation of 'stat.size <= this.offset'
sizeGrew(size, off) == size > off

failedPassAdvanced(d) == [d EXCEPT !.offset = Len(d.file)]

\* 'catch { return; }' of the stat and of the open and read: what the driver
\* holds when a pass ends there
failedPass(d) == d

\* another process appends to the watched file
AppendFile ==
  /\ tailing /\ Len(file) < MaxBytes
  /\ \E b \in Written : driver' = [driver EXCEPT !.file = Append(file, b)]
  /\ UNCHANGED <<config, status, branch, scan, lineCount, attendanceMap, lootEvents,
                 zones, sessionMap, result, seen, interrupted, replay, apart>>

\* start()
Start ==
  /\ tailing /\ status = "scanning" /\ idle
  /\ watcher = "null" /\ startSize = noSize
  /\ \/ driver' = [driver EXCEPT !.offset = startOffset(Len(file)),
                                   !.startSize = Len(file),
                                   !.watcher = "open"]
     \/ /\ failures < MaxFailures
        /\ driver' = [driver EXCEPT !.failures = failures + 1, !.errors = errors + 1]
  /\ UNCHANGED <<config, status, branch, scan, lineCount, attendanceMap, lootEvents,
                 zones, sessionMap, result, seen, interrupted, replay, apart>>

\* the filesystem raises a notification for the watched file
Notify ==
  /\ tailing /\ watcher = "open" /\ notified < MaxNotify
  /\ driver' = [driver EXCEPT !.events = events + 1, !.notified = notified + 1]
  /\ UNCHANGED <<config, status, branch, scan, lineCount, attendanceMap, lootEvents,
                 zones, sessionMap, result, seen, interrupted, replay, apart>>

\* the fs.watch listener runs for one notification
Deliver ==
  /\ tailing /\ status = "scanning" /\ idle
  /\ watcher = "open" /\ events > 0
  /\ \E eventType \in {"change", "rename"} :
        IF eventType = "change"
        THEN driver' = [driver EXCEPT !.events = events - 1,
                                      !.timers = armDebounce(timers, debounceLive),
                                      !.debounceLive = TRUE]
        ELSE driver' = [driver EXCEPT !.events = events - 1]
  /\ UNCHANGED <<config, status, branch, scan, lineCount, attendanceMap, lootEvents,
                 zones, sessionMap, result, seen, interrupted, replay, apart>>

\* a debounce timeout fires: _readNew() up to the for loop
ReadNew ==
  /\ tailing /\ status = "scanning" /\ idle
  /\ timers > 0
  /\ LET fired == [driver EXCEPT !.timers = timers - 1,
                                  !.debounceLive = IF timers = 1 THEN FALSE ELSE @,
                                  !.passes = passes + 1]
     IN
     \/ \* statSync throws, or openSync / readSync throws
        /\ failures < MaxFailures
        /\ driver' = [failedPass(fired) EXCEPT !.failures = failures + 1]
     \/ \* stat.size <= this.offset
        /\ ~sizeGrew(Len(file), offset)
        /\ driver' = [fired EXCEPT !.shrunk = IF Len(file) < offset THEN @ + 1 ELSE @]
     \/ /\ sizeGrew(Len(file), offset)
        /\ LET text  == pendingChunk \o decode(SubSeq(file, offset + 1, Len(file)))
               lines == split(text)
           IN  driver' = [fired EXCEPT
                            !.pendingChunk = lines[Len(lines)],
                            !.todo = SubSeq(lines, 1, Len(lines) - 1),
                            !.offset = Len(file),
                            !.read = IF mode = "trunc"
                                     THEN read \o SubSeq(file, offset + 1, Len(file))
                                     ELSE @,
                            !.retried = @ \/ (mode = "trunc" /\ failures > errors),
                            !.lowestRead = IF offset < lowestRead THEN offset ELSE @]
  /\ UNCHANGED <<config, status, branch, scan, lineCount, attendanceMap, lootEvents,
                 zones, sessionMap, result, seen, interrupted, replay, apart>>

\* one iteration of _readNew's for loop: this._processLine(line)
ProcessNext ==
  /\ tailing /\ status = "scanning" /\ todo # <<>>
  /\ LET n == processLine(here, lineOf(Head(todo))) IN
     /\ Consume(lineOf(Head(todo)), n)
     /\ driver' = [driver EXCEPT
                     !.todo = IF n.branch = "throw" THEN <<>> ELSE Tail(todo),
                     !.emits = emits + Len(emitted(here, lineOf(Head(todo)), n)),
                     !.classified = Append(classified, Head(todo))]
  /\ UNCHANGED <<replay, apart>>

\* stop()
Stop ==
  /\ tailing /\ status = "scanning" /\ idle
  /\ stops < MaxStops
  /\ driver' = [driver EXCEPT !.stops = stops + 1,
                              !.watcher = "null",
                              !.events = 0,
                              !.timers = stopTimers(timers, debounceLive),
                              !.debounceLive = FALSE]
  /\ UNCHANGED <<config, status, branch, scan, lineCount, attendanceMap, lootEvents,
                 zones, sessionMap, result, seen, interrupted, replay, apart>>

\* another process truncates the watched file
Truncate ==
  /\ mode = "trunc" /\ truncs < MaxTruncs
  /\ \E n \in 0..(Len(file) - 1) :
        driver' = [driver EXCEPT !.file = SubSeq(file, 1, n), !.truncs = truncs + 1]
  /\ UNCHANGED <<config, status, branch, scan, lineCount, attendanceMap, lootEvents,
                 zones, sessionMap, result, seen, interrupted, replay, apart>>

InitTail == InitOf({"tail"})

NextTail ==
  \/ AppendFile
  \/ Start
  \/ Notify
  \/ Deliver
  \/ ReadNew
  \/ ProcessNext
  \/ Stop

SpecTail == InitTail /\ [][NextTail]_vars

\* the event loop of the driver's process runs every callback that is due:
\* the watch listener of a raised notification, the debounce timeout, and the
\* iterations of the for loop of a pass
SpecTailFair ==
  SpecTail /\ WF_vars(Deliver) /\ WF_vars(ReadNew) /\ WF_vars(ProcessNext)

InitTrunc == InitOf({"trunc"})

NextTrunc ==
  \/ AppendFile
  \/ Truncate
  \/ Start
  \/ Notify
  \/ Deliver
  \/ ReadNew
  \/ ProcessNext
  \/ Stop

SpecTrunc == InitTrunc /\ [][NextTrunc]_vars

(* ------------------------ parseLog, run twice ------------------------- *)

\* the lines of the file that is parsed twice
RerunLines ==
  {[bracket |-> TRUE, ts |-> stampOf(SystemTz, 88), content |-> c] :
     c \in {Content("zone", TheDeep, noWho, "", ""),
            Content("start", <<>>, noWho, "", ""),
            Content("footer", TheDeep, noWho, "", ""),
            Content("selfLoot", <<>>, noWho, "", "Shiknar Ichor")}
           \cup {Content("player", <<>>, w, "", "") : w \in WhoTexts}}
  \cup {[bracket |-> TRUE, ts |-> badStamp(SystemTz),
         content |-> Content("otherLoot", <<>>, noWho, "Risingdarkness", "Phase Spider Blood")]}

staleScan == here

\* the locals parseLog declares on entry
freshScan ==
  [currentZone |-> null, inWhoBlock |-> FALSE, whoBlockTime |-> noTime,
   whoPlayers |-> <<>>, attendanceMap |-> <<>>, lootEvents |-> <<>>,
   zones |-> <<>>, sessionMap |-> <<>>, branch |-> "none"]

RECURSIVE parseLogFrom(_, _)
\* parseLog's for-await loop over the lines of a file, from scan state s
parseLogFrom(s, lines) ==
  IF lines = <<>> THEN s
  ELSE parseLogFrom(parseLogLine(s, Head(lines)), Tail(lines))

\* the first run reads the next line of the file
RerunLine ==
  /\ mode = "rerun" /\ status = "scanning" /\ lineCount < MaxRerun
  /\ \E line \in RerunLines :
        /\ Consume(line, parseLogLine(here, line))
        /\ log' = Append(log, line)
  /\ UNCHANGED <<driver, again, apart>>

\* the first run reaches the end of the file and returns
RerunReturn ==
  /\ mode = "rerun" /\ status = "scanning"
  /\ status' = "done"
  /\ result' = [noResult EXCEPT !.attendance = mapValues(attendanceMap),
                                !.loot = lootEvents, !.lineCount = lineCount]
  /\ UNCHANGED <<config, branch, scan, lineCount, attendanceMap, lootEvents, zones,
                 sessionMap, seen, interrupted, driver, replay, apart>>

\* parseLog is called again on the unchanged file and returns
RerunAgain ==
  /\ mode = "rerun" /\ status = "done"
  /\ status' = "again"
  /\ LET end == parseLogFrom(freshScan, log) IN
     again' = [noResult EXCEPT !.attendance = mapValues(end.attendanceMap),
                               !.loot = end.lootEvents, !.lineCount = Len(log)]
  /\ UNCHANGED <<config, branch, scan, lineCount, attendanceMap, lootEvents, zones,
                 sessionMap, result, seen, interrupted, driver, log, apart>>

InitRerun == InitOf({"rerun"})

NextRerun ==
  \/ RerunLine
  \/ RerunReturn
  \/ RerunAgain

SpecRerun == InitRerun /\ [][NextRerun]_vars

(* ---------------- live tail and auto scan, side by side --------------- *)

\* the lines of a log whose timestamps all fall on Wednesday of the epoch
\* week (UTC), or cannot be parsed
PairLines(tz) ==
  {line \in FewLines(tz) :
     \/ ~line.bracket
     \/ parseEQDateUTC(line.ts, tz) = NaN
     \/ sessionKey(parseEQDateUTC(line.ts, tz)) = 3}

\* the scan state a handler leaves
scanOf(s) == <<s.currentZone, s.inWhoBlock, s.whoBlockTime, s.whoPlayers>>

\* the same line reaches the live watcher's _processLine and the loop body of
\* autoParseLog
PairLine ==
  /\ mode = "pair" /\ status = "scanning" /\ lineCount < MaxLines
  /\ \E line \in PairLines(timezone) :
        LET live == processLine(here, line)
            auto == autoParseLine(here, line)
        IN  /\ scanOf(live) = scanOf(auto)
            /\ Consume(line, [live EXCEPT !.sessionMap = auto.sessionMap])
  /\ UNCHANGED <<driver, replay, apart>>

\* Math.min(...attendance.map(a => a.firstSeen.getTime())), or now
minFirstSeen(attendance, now) ==
  IF attendance = <<>> THEN now
  ELSE CHOOSE t \in {attendance[i].firstSeen : i \in 1..Len(attendance)} :
         \A i \in 1..Len(attendance) : t <= attendance[i].firstSeen

\* Math.max(...attendance.map(a => a.lastSeen.getTime())), or now
maxLastSeen(attendance, now) ==
  IF attendance = <<>> THEN now
  ELSE CHOOSE t \in {attendance[i].lastSeen : i \in 1..Len(attendance)} :
         \A i \in 1..Len(attendance) : t >= attendance[i].lastSeen

\* getSessionData() called at instant now
getSessionData(now) ==
  LET attendance == mapValues(attendanceMap)
      firstSeen  == minFirstSeen(attendance, now)
      lastSeen   == maxLastSeen(attendance, now)
  IN  [date |-> sessionKey(firstSeen), dayName |-> DAY_NAMES[getUTCDay(firstSeen) + 1],
       zones |-> zones, attendance |-> attendance, loot |-> lootEvents,
       firstSeen |-> firstSeen, lastSeen |-> lastSeen]

InitPair == InitOf({"pair"})

SpecPair == InitPair /\ [][PairLine]_vars

(* --------------------------- zone matcher ----------------------------- *)

\* parseLog asks whether a zone name (the current zone, null before any zone
\* entry, or the zone of a footer) matches the filters
MatchZone ==
  /\ mode = "match"
  /\ \E z \in ZoneNames \cup {null} :
        matcher' = [matcher EXCEPT !.zoneName = z,
                                   !.verdict = zoneMatchesFilters(z, zoneFilters)]
  /\ UNCHANGED <<config, status, branch, scan, lineCount, attendanceMap, lootEvents,
                 zones, sessionMap, result, seen, interrupted, driver, replay, clock,
                 store, voice>>

InitMatch == InitOf({"match"})

SpecMatch == InitMatch /\ [][MatchZone]_vars

(* ------------------------------ database ----------------------------- *)

Ichor == <<"I","c","h","o","r">>

\* the bodies of the requests: attendance records and loot events as the
\* parser returns them, names in two letter cases, one event twice
Payloads ==
  LET a1 == newRecord(whoEntry(CHOOSE w \in WhoTexts : w.name = Lyri), 86)
      e1 == lootEvent(Lyri, Ichor, 86, TheDeep)
      e2 == lootEvent(LYRI, toLowerCase(Ichor), 86, TheDeep)
      e3 == lootEvent(Lyri, Ichor, 88, TheDeep)
  IN  {[attendance |-> <<>>, loot |-> <<>>],
       [attendance |-> <<a1>>, loot |-> <<e1>>],
       [attendance |-> <<>>, loot |-> <<e2>>],
       [attendance |-> <<>>, loot |-> <<e3>>],
       [attendance |-> <<a1>>, loot |-> <<e1, e1>>],
       [attendance |-> <<>>, loot |-> <<e1, e3>>],
       [attendance |-> <<>>, loot |-> <<e2, e1>>]}

\* text equality under COLLATE NOCASE
nocaseEq(a, b) == toLowerCase(a) = toLowerCase(b)

\* INSERT OR REPLACE INTO attendance under UNIQUE(raid_id, player_name)
stmtAttend(table, raidId, a) ==
  Append(SelectSeq(table, LAMBDA r : ~(r.raid_id = raidId /\ r.player_name = a.name)),
         [raid_id |-> raidId, player_name |-> a.name, level |-> a.level,
          class |-> a.class, race |-> a.race, guild |-> a.guild,
          first_seen |-> a.firstSeen, last_seen |-> a.lastSeen])

RECURSIVE runAttend(_, _, _)
\* for (const a of attendance) stmtAttend.run(...)
runAttend(table, raidId, attendance) ==
  IF attendance = <<>> THEN table
  ELSE runAttend(stmtAttend(table, raidId, Head(attendance)), raidId, Tail(attendance))

\* the row stmtLoot inserts for a loot event
lootRow(raidId, l) ==
  [raid_id |-> raidId, player_name |-> l.playerName, item_name |-> l.itemName,
   looted_at |-> l.timestamp, zone |-> l.zone]

lootExistsExact(table, raidId, l) ==
  \E i \in 1..Len(table) :
     /\ table[i].raid_id = raidId
     /\ table[i].player_name = l.playerName
     /\ table[i].item_name = l.itemName
     /\ table[i].looted_at = l.timestamp

\* the subquery of mergeIntoRaid's stmtLoot: SELECT 1 FROM loot WHERE ...
lootExists(table, raidId, l) ==
  \E i \in 1..Len(table) :
     /\ table[i].raid_id = raidId
     /\ nocaseEq(table[i].player_name, l.playerName)
     /\ nocaseEq(table[i].item_name, l.itemName)
     /\ table[i].looted_at = l.timestamp

RECURSIVE saveLoot(_, _, _)
\* saveRaid: for (const l of loot) stmtLoot.run(...)
saveLoot(table, raidId, loot) ==
  IF loot = <<>> THEN table
  ELSE saveLoot(Append(table, lootRow(raidId, Head(loot))), raidId, Tail(loot))

RECURSIVE mergeLoot(_, _, _, _)
\* mergeIntoRaid: for (const l of loot) { r = stmtLoot.run(...);
\* if (r.changes > 0) newLoot++ }
mergeLoot(table, raidId, loot, newLoot) ==
  IF loot = <<>> THEN [table |-> table, newLoot |-> newLoot]
  ELSE IF lootExists(table, raidId, Head(loot))
       THEN mergeLoot(table, raidId, Tail(loot), newLoot)
       ELSE mergeLoot(Append(table, lootRow(raidId, Head(loot))), raidId, Tail(loot),
                      newLoot + 1)

\* POST /raid: saveRaid in one transaction
SaveRaid ==
  /\ mode = "store" /\ raidsTable < MaxRaids
  /\ \E body \in Payloads :
        LET raidId == raidsTable + 1 IN
        /\ Len(lootTable) + Len(body.loot) <= MaxRows
        /\ store' = [raidsTable |-> raidId,
                     attendanceTable |-> runAttend(attendanceTable, raidId, body.attendance),
                     lootTable |-> saveLoot(lootTable, raidId, body.loot),
                     call |-> [op |-> "save", raidId |-> raidId,
                               attendance |-> body.attendance, loot |-> body.loot],
                     returned |-> [raidId |-> raidId, newLoot |-> 0],
                     repeated |-> FALSE]
  /\ UNCHANGED <<config, status, branch, scan, lineCount, attendanceMap, lootEvents,
                 zones, sessionMap, result, seen, interrupted, driver, replay, matcher,
                 clock, voice>>

\* POST /raid/merge?id=raidId: 404 when the raid does not exist, otherwise
\* mergeIntoRaid in one transaction
MergeIntoRaid ==
  /\ mode = "store"
  /\ \E raidId \in 1..MaxRaids : \E body \in Payloads :
        LET request == [op |-> "merge", raidId |-> raidId,
                        attendance |-> body.attendance, loot |-> body.loot]
            merged  == mergeLoot(lootTable, raidId, body.loot, 0)
        IN
        IF raidId > raidsTable
        THEN store' = [store EXCEPT !.call = request,
                                    !.repeated = (call = request),
                                    !.returned = noReturn]
        ELSE /\ Len(merged.table) <= MaxRows
             /\ store' = [store EXCEPT
                            !.call = request,
                            !.repeated = (call = request),
                            !.attendanceTable = runAttend(attendanceTable, raidId,
                                                          body.attendance),
                            !.lootTable = merged.table,
                            !.returned = [raidId |-> raidId, newLoot |-> merged.newLoot]]
  /\ UNCHANGED <<config, status, branch, scan, lineCount, attendanceMap, lootEvents,
                 zones, sessionMap, result, seen, interrupted, driver, replay, matcher,
                 clock, voice>>

InitStore == InitOf({"store"})

NextStore ==
  \/ SaveRaid
  \/ MergeIntoRaid

SpecStore == InitStore /\ [][NextStore]_vars

(* ------------------------ timestamp normalizer ------------------------ *)

\* the game writes a line at instant u, stamped with the owner's wall clock,
\* and the scan converts the stamp with parseEQDateUTC
ConvertStamp ==
  /\ mode = "clock"
  /\ \E u \in 0..MaxInstant :
        clock' = [tsStr |-> stampOf(timezone, u),
                  utc |-> parseEQDateUTC(stampOf(timezone, u), timezone),
                  written |-> u]
  /\ UNCHANGED <<config, status, branch, scan, lineCount, attendanceMap, lootEvents,
                 zones, sessionMap, result, seen, interrupted, driver, replay, matcher,
                 store, voice>>

InitClock == InitOf({"clock"})

SpecClock == InitClock /\ [][ConvertStamp]_vars

(* ---------------------------- voice tracker --------------------------- *)

\* db.createRaid: the new row gets the next id
createRaid(rows, startTime_, endTime_) ==
  Append(rows, [id |-> Len(rows) + 1, start_time |-> startTime_, end_time |-> endTime_])

\* db.upsertVoiceAttendance: INSERT ... ON CONFLICT(raid_id, player_name) DO
\* UPDATE SET last_seen = COALESCE(excluded.last_seen, attendance.last_seen)
upsertVoiceAttendance(rows, raidId, playerName, firstSeen, lastSeen) ==
  IF \E i \in 1..Len(rows) : rows[i].raid_id = raidId /\ rows[i].player_name = playerName
  THEN [i \in 1..Len(rows) |->
          IF rows[i].raid_id = raidId /\ rows[i].player_name = playerName
          THEN [rows[i] EXCEPT !.last_seen = IF lastSeen # noTime THEN lastSeen ELSE @]
          ELSE rows[i]]
  ELSE Append(rows, [raid_id |-> raidId, player_name |-> playerName,
                     first_seen |-> firstSeen, last_seen |-> lastSeen])

\* db.updateRaidEndTime
updateRaidEndTime(rows, raidId, endTime_) ==
  [i \in 1..Len(rows) |-> IF rows[i].id = raidId THEN [rows[i] EXCEPT !.end_time = endTime_]
                          ELSE rows[i]]

\* charName ?? member.displayName, no character being linked to the members
playerNameOf(member) == member

\* handleJoin(member, timestamp)
handleJoin(v, member, timestamp) ==
  IF v.activeRaid = noRaid THEN v
  ELSE IF mapHas(v.activeRaid.members, member) THEN v
  ELSE [v EXCEPT
          !.activeRaid.members =
             mapSet(@, member, [name |-> playerNameOf(member), firstSeen |-> timestamp,
                                lastSeen |-> noTime]),
          !.attendance = upsertVoiceAttendance(@, v.activeRaid.raidId, playerNameOf(member),
                                               timestamp, noTime),
          !.joined[member] = IF @ = noTime THEN timestamp ELSE @]

\* handleLeave(discordId, timestamp)
handleLeave(v, discordId, timestamp) ==
  IF v.activeRaid = noRaid THEN v
  ELSE IF ~mapHas(v.activeRaid.members, discordId) THEN v
  ELSE LET memberData == mapGet(v.activeRaid.members, discordId) IN
       [v EXCEPT
          !.activeRaid.members = mapSet(@, discordId, [memberData EXCEPT !.lastSeen = timestamp]),
          !.attendance = upsertVoiceAttendance(@, v.activeRaid.raidId, memberData.name,
                                               memberData.firstSeen, timestamp)]

RECURSIVE joinAll(_, _, _)
\* for (const member of channel.members.values()) await handleJoin(member, now)
joinAll(v, members, timestamp) ==
  IF members = {} THEN v
  ELSE LET member == CHOOSE m \in members : TRUE IN
       joinAll(handleJoin(v, member, timestamp), members \ {member}, timestamp)

\* snapshotVoiceChannel(guild): the fetch of the channel succeeds or fails
snapshotVoiceChannel(v, fetched) ==
  IF v.activeRaid = noRaid \/ ~fetched THEN v ELSE joinAll(v, v.channel, v.now)

\* the 'for' loop of the COMPLETED branch over activeRaid.members
RECURSIVE finalizeFrom(_, _, _)
finalizeFrom(v, i, t) ==
  IF i > Len(v.activeRaid.members) THEN v
  ELSE LET memberData == v.activeRaid.members[i].val IN
       IF memberData.lastSeen # noTime THEN finalizeFrom(v, i + 1, t)
       ELSE finalizeFrom(
              [v EXCEPT
                 !.activeRaid.members[i].val.lastSeen = t,
                 !.attendance = upsertVoiceAttendance(@, v.activeRaid.raidId, memberData.name,
                                                      memberData.firstSeen, t)],
              i + 1, t)

\* activeRaid = { raidId, eventId: newEvent.id, members: new Map() }
startRaid(v, raidId) == newRaid(raidId)

\* onScheduledEventUpdate(oldEvent, newEvent), newEvent.status being given
onScheduledEventUpdate(v, newStatus, fetched) ==
  IF newStatus = 2 THEN
    LET made == createRaid(v.raids, v.now, v.now)
        raidId == Len(made)
    IN snapshotVoiceChannel(
         [v EXCEPT !.raids = made, !.activeRaid = startRaid(v, raidId),
                   !.joined = IF v.activeRaid = noRaid THEN [m \in Members |-> noTime] ELSE @],
         fetched)
  ELSE IF (newStatus = 3 \/ newStatus = 4) /\ v.activeRaid # noRaid THEN
    LET done == finalizeFrom(v, 1, v.now) IN
    [done EXCEPT !.raids = updateRaidEndTime(@, v.activeRaid.raidId, v.now),
                 !.activeRaid = noRaid]
  ELSE v

\* a tick of the clock, which counts from the start of the event
VoiceTick ==
  /\ mode = "voice" /\ event = "active" /\ wallClock < MaxClock
  /\ voice' = [voice EXCEPT !.now = wallClock + 1]
  /\ UNCHANGED <<config, status, branch, scan, lineCount, attendanceMap, lootEvents,
                 zones, sessionMap, result, seen, interrupted, driver, replay, matcher,
                 clock, store>>

\* the scheduled event starts: guildScheduledEventUpdate with status ACTIVE
EventStarts ==
  /\ mode = "voice" /\ event = "scheduled"
  /\ \E fetched \in BOOLEAN :
        voice' = [onScheduledEventUpdate(voice, 2, fetched) EXCEPT !.event = "active"]
  /\ UNCHANGED <<config, status, branch, scan, lineCount, attendanceMap, lootEvents,
                 zones, sessionMap, result, seen, interrupted, driver, replay, matcher,
                 clock, store>>

\* the running event is edited: guildScheduledEventUpdate, status still ACTIVE
EventEdited ==
  /\ mode = "voice" /\ event = "active" /\ updates < MaxUpdates
  /\ \E fetched \in BOOLEAN :
        voice' = [onScheduledEventUpdate(voice, 2, fetched) EXCEPT !.updates = updates + 1]
  /\ UNCHANGED <<config, status, branch, scan, lineCount, attendanceMap, lootEvents,
                 zones, sessionMap, result, seen, interrupted, driver, replay, matcher,
                 clock, store>>

\* the event ends: guildScheduledEventUpdate with status COMPLETED or CANCELED
EventCompletes ==
  /\ mode = "voice" /\ event = "active"
  /\ \E newStatus \in {3, 4} :
        voice' = [onScheduledEventUpdate(voice, newStatus, TRUE) EXCEPT
                    !.event = "completed", !.endedAt = wallClock, !.presentAtEnd = channel]
  /\ UNCHANGED <<config, status, branch, scan, lineCount, attendanceMap, lootEvents,
                 zones, sessionMap, result, seen, interrupted, driver, replay, matcher,
                 clock, store>>

\* onVoiceStateUpdate: a member enters the raid voice channel
VoiceJoin ==
  /\ mode = "voice"
  /\ \E member \in Members \ channel :
        voice' = [handleJoin(voice, member, wallClock) EXCEPT !.channel = channel \cup {member}]
  /\ UNCHANGED <<config, status, branch, scan, lineCount, attendanceMap, lootEvents,
                 zones, sessionMap, result, seen, interrupted, driver, replay, matcher,
                 clock, store>>

\* onVoiceStateUpdate: a member leaves the raid voice channel
VoiceLeave ==
  /\ mode = "voice"
  /\ \E member \in channel :
        voice' = [handleLeave(voice, member, wallClock) EXCEPT !.channel = channel \ {member}]
  /\ UNCHANGED <<config, status, branch, scan, lineCount, attendanceMap, lootEvents,
                 zones, sessionMap, result, seen, interrupted, driver, replay, matcher,
                 clock, store>>

InitVoice == InitOf({"voice"})

NextVoice ==
  \/ VoiceTick
  \/ EventStarts
  \/ EventEdited
  \/ EventCompletes
  \/ VoiceJoin
  \/ VoiceLeave

SpecVoice == InitVoice /\ [][NextVoice]_vars

(* ------------------------- reading the state -------------------------- *)

\* every attendance collection the state holds, one per scope:
\* [scope, records], the records in insertion order
Scopes ==
  {[scope |-> runScope, records |-> mapValues(attendanceMap)]}
  \cup {[scope |-> sessionMap[k].key, records |-> mapValues(sessionMap[k].val.attendanceMap)] :
          k \in 1..Len(sessionMap)}

\* the records of the scope a flush at instant t writes to
scopeRecords(t) ==
  IF mode = "auto"
  THEN IF \E k \in 1..Len(sessionMap) : sessionMap[k].key = t \div 24
       THEN mapValues(sessionMap[CHOOSE k \in 1..Len(sessionMap) : sessionMap[k].key = t \div 24].val.attendanceMap)
       ELSE <<>>
  ELSE mapValues(attendanceMap)

sameName(a, b) == toLowerCase(a) = toLowerCase(b)

\* the instants at which name (in any letter case) was flushed into scope
sightingsOf(scope, name) ==
  {sg.t : sg \in {x \in seen : x.scope = scope /\ sameName(x.name, name)}}

(* ------------------------------- claims ------------------------------- *)

\* C1: within one scope (the batch run, the live run, one auto date bucket)
\* no two attendance records carry names that are equal up to letter case,
\* and every flushed sighting has its record in its scope.
C1_OneRecordPerName ==
  /\ \A sc \in Scopes : \A i, j \in 1..Len(sc.records) :
        sameName(sc.records[i].name, sc.records[j].name) => i = j
  /\ \A sg \in seen : \E sc \in Scopes :
        /\ sc.scope = sg.scope
        /\ \E i \in 1..Len(sc.records) : sameName(sc.records[i].name, sg.name)

\* two sightings of one scope whose names differ only in letter case
C1_Witness ==
  \E a, b \in seen : a.scope = b.scope /\ a.name # b.name /\ sameName(a.name, b.name)

\* C2: every participant record of a batch, auto or live scan satisfies
\* firstSeen <= lastSeen.
C2_FirstSeenLeqLastSeen ==
  \A sc \in Scopes : \A i \in 1..Len(sc.records) :
     Leq(sc.records[i].firstSeen, sc.records[i].lastSeen)

\* C2, the part the code keeps: a record whose roster blocks all carried a
\* parseable timestamp satisfies firstSeen <= lastSeen (in auto and live mode
\* no other record exists).
C2_ExceptInvalidDate ==
  \A sc \in Scopes : \A i \in 1..Len(sc.records) :
     \/ mode = "batch" /\ NaN \in sightingsOf(sc.scope, sc.records[i].name)
     \/ Leq(sc.records[i].firstSeen, sc.records[i].lastSeen)

\* firstSeen is the least and lastSeen the greatest of the instants T
spans(r, T) ==
  /\ r.firstSeen \in T
  /\ r.lastSeen \in T
  /\ \A t \in T : Leq(r.firstSeen, t) /\ Leq(t, r.lastSeen)

\* C3: in batch and auto mode a record flushed by two or more roster blocks
\* has firstSeen = the minimum and lastSeen = the maximum of the block
\* instants of all its sightings, whatever the order of the blocks.
C3_SpanAllSightings ==
  mode \in {"batch", "auto"} =>
    \A sc \in Scopes : \A i \in 1..Len(sc.records) :
       Cardinality(sightingsOf(sc.scope, sc.records[i].name)) >= 2
         => spans(sc.records[i], sightingsOf(sc.scope, sc.records[i].name))

\* C3, the part the code keeps: the span is exact when every block of the
\* record carried a parseable timestamp.
C3_ExceptInvalidDate ==
  mode \in {"batch", "auto"} =>
    \A sc \in Scopes : \A i \in 1..Len(sc.records) :
       NaN \notin sightingsOf(sc.scope, sc.records[i].name)
         => spans(sc.records[i], sightingsOf(sc.scope, sc.records[i].name))

\* C4: in a live-tail run both bounds move outward on a repeat sighting, so
\* firstSeen is the least and lastSeen the greatest block instant seen.
C4_LiveBoundsMoveOutward ==
  mode = "live" =>
    \A i \in 1..Len(attendanceMap) :
       spans(attendanceMap[i].val, sightingsOf(runScope, attendanceMap[i].val.name))

\* C4, the part the code keeps: lastSeen is the greatest block instant and
\* firstSeen is the instant of the block that created the record.
C4_LiveLastSeenOnly ==
  mode = "live" =>
    \A i \in 1..Len(attendanceMap) :
       LET r == attendanceMap[i].val
           T == sightingsOf(runScope, r.name)
       IN  r.firstSeen \in T /\ r.lastSeen \in T /\ \A t \in T : t <= r.lastSeen

descOf(r) == <<r.level, r.class, r.race, r.guild>>

\* the buffered entries that are the last of their name in the buffer
lastOfName(i) ==
  \A j \in (i + 1)..Len(whoPlayers) : ~sameName(whoPlayers[j].name, whoPlayers[i].name)

recordOf(records, name) ==
  records[CHOOSE i \in 1..Len(records) : sameName(records[i].name, name)]

keptIn(old, new) ==
  /\ Len(new) >= Len(old)
  /\ \A i \in 1..Len(old) : new[i].name = old[i].name /\ descOf(new[i]) = descOf(old[i])

madeFrom(old, new, players) ==
  \A i \in (Len(old) + 1)..Len(new) :
     \E j \in 1..Len(players) : new[i].name = players[j].name /\ descOf(new[i]) = descOf(players[j])

C6_InterruptedBlockNeverFlushed == branch = "flush" => ~interrupted

\* C6, the part the code keeps: it holds in auto and live mode.
C6_AutoAndLive == mode # "batch" => C6_InterruptedBlockNeverFlushed

\* C7: in a batch result every loot event lies in [startTime, endTime] in a
\* zone matching the filters, and every record's firstSeen / lastSeen are
\* instants of flushed roster blocks inside the window.
C7_BatchResultInsideWindow ==
  mode = "batch" /\ status = "done" =>
    /\ \A i \in 1..Len(result.loot) :
          /\ Leq(startTime, result.loot[i].timestamp)
          /\ Leq(result.loot[i].timestamp, endTime)
          /\ zoneMatchesFilters(result.loot[i].zone, zoneFilters)
    /\ \A i \in 1..Len(result.attendance) :
          LET r == result.attendance[i] IN
          /\ r.firstSeen \in sightingsOf(runScope, r.name)
          /\ r.lastSeen \in sightingsOf(runScope, r.name)
          /\ Leq(startTime, r.firstSeen) /\ Leq(r.firstSeen, endTime)
          /\ Leq(startTime, r.lastSeen) /\ Leq(r.lastSeen, endTime)

\* C7, the part the code keeps: it holds of every event whose timestamp is
\* not an Invalid Date.
C7_ExceptInvalidDate ==
  mode = "batch" /\ status = "done" =>
    /\ \A i \in 1..Len(result.loot) :
          /\ result.loot[i].timestamp # NaN =>
               startTime <= result.loot[i].timestamp /\ result.loot[i].timestamp <= endTime
          /\ zoneMatchesFilters(result.loot[i].zone, zoneFilters)
    /\ \A i \in 1..Len(result.attendance) :
          LET r == result.attendance[i] IN
          /\ r.firstSeen \in sightingsOf(runScope, r.name)
          /\ r.lastSeen \in sightingsOf(runScope, r.name)
          /\ r.firstSeen # NaN => startTime <= r.firstSeen /\ r.firstSeen <= endTime
          /\ r.lastSeen # NaN => startTime <= r.lastSeen /\ r.lastSeen <= endTime

\* the recurrence rule as the claim states it: Sun, Wed, Fri or Sat, and a UTC
\* hour h with 13 <= h < 17
inRecurrence(t) == (t \div 24) % 7 \in {0, 3, 5, 6} /\ t % 24 >= 13 /\ t % 24 < 17

\* the UTC calendar day of an instant
utcDay(t) == t \div 24

\* the sessions of an auto scan, while it runs and as returned
heldSessions ==
  {[date |-> sessionMap[k].val.date, dayName |-> sessionMap[k].val.dayName,
    zones |-> sessionMap[k].val.zones, loot |-> sessionMap[k].val.loot,
    attendance |-> mapValues(sessionMap[k].val.attendanceMap)] : k \in 1..Len(sessionMap)}
  \cup {[date |-> result.sessions[k].date, dayName |-> result.sessions[k].dayName,
         zones |-> result.sessions[k].zones, loot |-> result.sessions[k].loot,
         attendance |-> result.sessions[k].attendance] : k \in 1..Len(result.sessions)}

\* C8: in auto mode an event is in a session only if its instant is on a
\* recurrence weekday at a UTC hour in [13, 17) and its zone is approved; no
\* event at hour 17 or later is in any session.
C8_OnlyRaidWindowEvents ==
  \A s \in heldSessions :
     /\ \A i \in 1..Len(s.loot) :
           inRecurrence(s.loot[i].timestamp) /\ isApprovedZone(s.loot[i].zone)
     /\ \A i \in 1..Len(s.attendance) :
           inRecurrence(s.attendance[i].firstSeen) /\ inRecurrence(s.attendance[i].lastSeen)
     /\ \A i \in 1..Len(s.zones) : isApprovedZone(s.zones[i])

\* the returned session dated Wednesday holds a loot event of 14:00 UTC and a
\* participant seen at 14:00 UTC that Wednesday
C8_Witness ==
  /\ mode = "auto" /\ status = "done"
  /\ \E k \in 1..Len(result.sessions) :
        LET s == result.sessions[k] IN
        /\ s.date = 3 /\ s.dayName = "Wednesday"
        /\ \E i \in 1..Len(s.loot) : s.loot[i].timestamp = 3 * 24 + 14
        /\ \E i \in 1..Len(s.attendance) : s.attendance[i].firstSeen = 3 * 24 + 14

\* C9: in auto mode every loot timestamp and every firstSeen / lastSeen of a
\* session falls on that session's UTC date, and every flushed sighting has
\* its record in the session of its own block instant's date.
C9_SessionDateIsEventDate ==
  /\ \A s \in heldSessions :
        /\ \A i \in 1..Len(s.loot) : utcDay(s.loot[i].timestamp) = s.date
        /\ \A i \in 1..Len(s.attendance) :
              utcDay(s.attendance[i].firstSeen) = s.date /\ utcDay(s.attendance[i].lastSeen) = s.date
  /\ mode = "auto" =>
       \A sg \in seen : \E k \in 1..Len(sessionMap) :
          /\ sessionMap[k].val.date = utcDay(sg.t)
          /\ \E i \in 1..Len(sessionMap[k].val.attendanceMap) :
                sameName(sessionMap[k].val.attendanceMap[i].val.name, sg.name)

\* the result holds two sessions on non-adjacent days, one with loot and one
\* with attendance
C9_Witness ==
  /\ mode = "auto" /\ status = "done"
  /\ \E j, k \in 1..Len(result.sessions) :
        /\ result.sessions[k].date > result.sessions[j].date + 1
        /\ Len(result.sessions[j].loot) > 0
        /\ Len(result.sessions[k].attendance) > 0

\* C10: the sessions array of an auto parse holds no session with both empty
\* attendance and empty loot and is strictly ascending by date (so no date
\* occurs twice).
C10_SessionsFilteredAndSorted ==
  mode = "auto" /\ status = "done" =>
    /\ \A k \in 1..Len(result.sessions) :
          Len(result.sessions[k].attendance) > 0 \/ Len(result.sessions[k].loot) > 0
    /\ \A j, k \in 1..Len(result.sessions) :
          j < k => result.sessions[j].date < result.sessions[k].date

\* the scan met the later day first and returned both sessions
C10_Witness ==
  /\ mode = "auto" /\ status = "done"
  /\ Len(sessionMap) = 2 /\ sessionMap[1].key > sessionMap[2].key
  /\ Len(result.sessions) = 2

\* the handler of the running mode applied to one line
handle(line) ==
  CASE mode \in {"batch", "rerun"} -> parseLogLine(here, line)
    [] mode = "auto" -> autoParseLine(here, line)
    [] OTHER -> processLine(here, line)

\* the instant the running mode reads from a line's timestamp
instantOf(line) ==
  IF mode \in {"batch", "rerun"} THEN parseEQDate(line.ts) ELSE parseEQDateUTC(line.ts, timezone)

\* the current zone passes the zone gate of the running mode
zonePasses ==
  IF mode \in {"batch", "rerun"} THEN zoneMatchesFilters(currentZone, zoneFilters)
  ELSE isApprovedZone(currentZone)

\* the line's instant passes the time gate of the running mode
instantPasses(line) ==
  IF mode \in {"batch", "rerun"}
  THEN Leq(startTime, instantOf(line)) /\ Leq(instantOf(line), endTime)
  ELSE instantOf(line) # NaN /\ inRecurrence(instantOf(line))

\* the loot lines a log of the running mode holds
lootLinesOf ==
  [tz \in Timezones |->
     {[bracket |-> TRUE, ts |-> t, content |-> c] :
        t \in Stamps(tz),
        c \in {x \in TimedContents : x.kind \in {"selfLoot", "otherLoot"}}}]

lootLines == lootLinesOf[timezone]

\* the loot list an event at instant t is appended to, in scan state s
lootListAt(s, t) ==
  IF mode = "auto"
  THEN IF mapHas(s.sessionMap, utcDay(t)) THEN mapGet(s.sessionMap, utcDay(t)).loot ELSE <<>>
  ELSE s.lootEvents

\* C11: while the scan runs, outside a roster block and with the gate passed,
\* the handler of the running mode applied to a self-loot line
\* (character name configured) appends exactly one event carrying the
\* configured name, the line's item and the current zone, and an other-player
\* loot line appends exactly one event carrying the named player.
C11_LootLineAppendsOneEvent ==
  status = "scanning" /\ ~inWhoBlock /\ zonePasses =>
  \A line \in lootLines :
     ( /\ instantPasses(line)
       /\ line.content.kind = "selfLoot" => characterName # "" )
     => LET before == lootListAt(here, instantOf(line))
            after  == lootListAt(handle(line), instantOf(line))
        IN  /\ Len(after) = Len(before) + 1
            /\ SubSeq(after, 1, Len(before)) = before
            /\ after[Len(after)].playerName =
                 (IF line.content.kind = "selfLoot" THEN characterName ELSE line.content.player)
            /\ after[Len(after)].itemName = line.content.item
            /\ after[Len(after)].zone = currentZone

\* a self-loot line has just been recorded under the configured name, after an
\* other-player loot line was recorded under that player's name
C11_Witness ==
  /\ branch = "selfLoot" /\ characterName = "Lyri"
  /\ \E t \in UtcSamples :
        LET l == lootListAt(here, t) IN
        /\ Len(l) = 2
        /\ l[1].playerName = "Risingdarkness" /\ l[1].itemName = "Phase Spider Blood"
        /\ l[2].playerName = "Lyri" /\ l[2].itemName = "Shiknar Ichor"
        /\ l[2].zone = TheDeep

\* C12: the loot list of a batch parse is append-only and ordered: a step
\* leaves it as it is or appends one event after those it holds, it grows
\* exactly when a loot line is accepted (also when the list already holds an
\* identical event), and the result returns it as it stands.
C12_BatchLootAppendOnly ==
  [][ mode = "batch" =>
        /\ Len(lootEvents') \in {Len(lootEvents), Len(lootEvents) + 1}
        /\ SubSeq(lootEvents', 1, Len(lootEvents)) = lootEvents
        /\ (Len(lootEvents') = Len(lootEvents) + 1)
             <=> (lineCount' = lineCount + 1 /\ branch' \in {"selfLoot", "otherLoot"})
        /\ (status = "scanning" /\ status' = "done") => result'.loot = lootEvents
    ]_vars

\* a batch result whose loot list holds the same event twice
C12_Witness ==
  /\ mode = "batch" /\ status = "done"
  /\ Len(result.loot) = 2 /\ result.loot[1] = result.loot[2]

\* C13: after start() every read of the live-tail driver begins at or after
\* the length the file had at start(), so nothing of the file's earlier
\* content reaches the classifier.
C13_NoReplayBeforeStart ==
  mode = "tail" =>
    /\ startSize = noSize => lowestRead = noSize /\ classified = <<>>
    /\ startSize # noSize => offset >= startSize /\ lowestRead >= startSize

\* the file held a line before start(), and lines appended later were read
\* from the start offset on and classified
C13_Witness ==
  /\ mode = "tail" /\ startSize # noSize /\ startSize >= 2
  /\ file[1] = "Z" /\ file[2] = "LF"
  /\ lowestRead = startSize /\ classified # <<>>

\* the bytes appended after start() that the driver has read so far
streamRead == SubSeq(file, startSize + 1, offset)

\* the text of the stream cut at its line terminators
streamLines == split(decode(streamRead))

\* C14: however the appended bytes were split into reads, the driver hands
\* the classifier exactly the newline-terminated lines of the stream read so
\* far, once each and in stream order, and holds back the unterminated rest.
C14_ReadBoundariesDoNotMatter ==
  mode = "tail" /\ startSize # noSize =>
    /\ classified \o todo = SubSeq(streamLines, 1, Len(streamLines) - 1)
    /\ pendingChunk = streamLines[Len(streamLines)]

\* the stream read so far holds a character of more than one byte
hasMultiByte == \E i \in 1..Len(streamRead) : streamRead[i] \in {"C3", "A9"}

\* C14, the part the code keeps: it holds of a stream of single-byte
\* characters as long as no line's timestamp made the classifier throw.
C14_SingleByteAndParseable ==
  mode = "tail" /\ startSize # noSize /\ ~hasMultiByte /\ status # "crashed"
    => C14_ReadBoundariesDoNotMatter

\* C15: for one live-tail driver at most one timeout is armed at any time (a
\* notification that finds one armed replaces it, so a burst ends in one
\* pass), a read pass begins only when no pass is in progress, and a
\* notification raised during a pass changes nothing of the pass.
C15_OnePassAtATime ==
  [][ mode = "tail" =>
        /\ timers' <= 1
        /\ passes' > passes => todo = <<>>
        /\ (todo # <<>> /\ notified' > notified)
             => /\ passes' = passes /\ timers' = timers /\ todo' = todo
                /\ classified' = classified /\ offset' = offset
    ]_vars

\* two notifications were raised and delivered to a driver that was never
\* stopped, no timeout is left armed, and a single read pass ran
C15_Witness ==
  /\ mode = "tail" /\ notified = 2 /\ events = 0 /\ timers = 0 /\ stops = 0
  /\ passes = 1 /\ classified # <<>>

\* C16: stop() closes the subscription and clears the pending timeout, so
\* that from a stopped driver no read pass begins, no line is classified and
\* no zone, attendance or loot event is emitted, also when a notification was
\* raised just before; stop() never raises, and on a driver that is already
\* stopped or was never started it changes nothing.
C16_StopEndsPasses ==
  [][ mode = "tail" =>
        /\ (stops > 0 /\ watcher = "null")
             => passes' = passes /\ emits' = emits /\ classified' = classified
        /\ stops' > stops
             => /\ watcher' = "null" /\ timers' = 0 /\ events' = 0
                /\ status' = status
                /\ watcher = "null"
                     => UNCHANGED <<timers, events, offset, pendingChunk, todo, emits,
                                    errors, passes>>
    ]_vars

\* the driver was started, the file grew and a notification was raised, then
\* stop() was called twice, and no read pass ever ran
C16_Witness ==
  /\ mode = "tail" /\ startSize # noSize /\ Len(file) > startSize
  /\ notified > 0 /\ stops = 2 /\ passes = 0 /\ watcher = "null"

\* C18: in live mode every file-access failure is reported to subscribers as
\* an 'error' event.
C18_EveryFailureReported == mode = "tail" => errors = failures

\* C18, the part the code keeps: a failure of the stat in start() is
\* reported; the failures of a read pass are the ones not reported.
C18_StartFailureReported ==
  mode = "tail" => errors <= failures /\ (passes = 0 => errors = failures)

\* the lines whose timestamp has the right shape and an unknown month name
badLines == {line \in Lines(timezone) : line.bracket /\ line.ts.mon \notin MONTHS}

\* C19: in batch, auto and live mode a line whose timestamp cannot be
\* converted to an instant is skipped: the handler changes neither the scan
\* state, attendance, loot nor sessions, and it does not throw.
C19_BadTimestampSkipped ==
  status = "scanning" =>
    \A line \in badLines :
       /\ handle(line).branch # "throw"
       /\ [handle(line) EXCEPT !.branch = branch] = here

\* C19, the part the code keeps: in auto and live mode the line changes no
\* state (the handler throws before it reads the content).
C19_AutoLiveLeaveState ==
  status = "scanning" /\ mode \in {"auto", "live"} =>
    \A line \in badLines : [handle(line) EXCEPT !.branch = branch] = here

queryTime == 4 * 24

\* C17: with all tailed lines on one UTC date, the aggregate getSessionData()
\* returns equals the session the auto scan returns for the same lines:
\* the same attendance records with their firstSeen / lastSeen, the same loot
\* list, the same zones (and an empty aggregate when the scan returns none).
C17_LiveEqualsAuto ==
  mode = "pair" =>
    LET live     == getSessionData(queryTime)
        sessions == autoSessions(sessionMap)
    IN  IF sessions = <<>>
        THEN live.attendance = <<>> /\ live.loot = <<>>
        ELSE /\ Len(sessions) = 1
             /\ live.attendance = sessions[1].attendance
             /\ live.loot = sessions[1].loot
             /\ live.zones = sessions[1].zones

\* a record without its firstSeen
exceptFirstSeen(r) == [r EXCEPT !.firstSeen = 0]

\* C17, the part the code keeps: the loot list is the same and the attendance
\* records are the same but for firstSeen.
C17_ExceptFirstSeenAndZones ==
  mode = "pair" =>
    LET live     == getSessionData(queryTime)
        sessions == autoSessions(sessionMap)
    IN  IF sessions = <<>>
        THEN live.attendance = <<>> /\ live.loot = <<>>
        ELSE /\ Len(sessions) = 1
             /\ Len(live.attendance) = Len(sessions[1].attendance)
             /\ \A i \in 1..Len(live.attendance) :
                   exceptFirstSeen(live.attendance[i]) = exceptFirstSeen(sessions[1].attendance[i])
             /\ live.loot = sessions[1].loot

\* C17, the step both handlers share: on every line they leave the same
\* current zone, roster-block flag, block instant and pending buffer.
C17_SameScanState ==
  mode = "pair" /\ status = "scanning" =>
    \A line \in PairLines(timezone) :
       scanOf(processLine(here, line)) = scanOf(autoParseLine(here, line))

\* the log read so far is one roster block and nothing else: a start marker,
\* the buffered entries, all of different participants, and a footer that
\* flushed them
oneBlockLog ==
  /\ branch = "flush"
  /\ lineCount = Len(whoPlayers) + 2
  /\ \A i, j \in 1..Len(whoPlayers) :
        sameName(whoPlayers[i].name, whoPlayers[j].name) => i = j

\* a one-block log of k entries holds k attendance records and no loot event,
\* in the scan and in the result returned
kRecordsNoLoot ==
  LET k == Len(whoPlayers) IN
  /\ Len(scopeRecords(whoBlockTime)) = k
  /\ lootEvents = <<>> /\ sessionLoot(sessionMap) = 0
  /\ (mode = "batch" /\ status = "done")
       => Len(result.attendance) = k /\ result.loot = <<>>
  /\ (mode = "auto" /\ status = "done")
       => IF k = 0 THEN result.sessions = <<>>
          ELSE /\ Len(result.sessions) = 1
               /\ Len(result.sessions[1].attendance) = k
               /\ result.sessions[1].loot = <<>>

\* C21: every line a batch or auto parse reads adds one to lineCount,
\* whatever the line is (no bracketed timestamp, outside the window, no
\* pattern matched), and the result returns that count; a log that is one
\* footer-terminated roster block of k distinct entries yields exactly k
\* attendance records and no loot event.
C21_LineCountAndRoster ==
  [][ (mode = "batch" \/ mode = "auto") =>
        /\ status' # "done" => lineCount' = lineCount + 1
        /\ status' = "done" => lineCount' = lineCount /\ result'.lineCount = lineCount
        /\ (oneBlockLog' => kRecordsNoLoot')
    ]_vars

\* an auto parse returned after a log of four lines that is one roster block
\* of two participants
C21_Witness ==
  /\ mode = "auto" /\ status = "done" /\ oneBlockLog
  /\ Len(whoPlayers) = 2 /\ result.lineCount = 4

\* a is a substring of b
substringOf(a, b) == \E i \in 1..(Len(b) + 1) : \E j \in (i - 1)..Len(b) : SubSeq(b, i, j) = a

\* some normalized filter is a substring of the normalized name, or the
\* normalized name is a substring of some normalized filter
eitherWay(name, filters) ==
  \E i \in 1..Len(filters) :
     substringOf(filters[i], normalizeZone(name)) \/ substringOf(normalizeZone(name), filters[i])

\* C22: for a zone name of one character at least, the matcher answers true
\* exactly when some normalized filter is a substring of the normalized name
\* or the normalized name is a substring of some normalized filter; a zone
\* name and a single filter give the same answer with their roles swapped;
\* and a name with a leading "The " matches the filter that names it without
\* the article, whatever the letter case.
C22_ZoneMatchBidirectional ==
  mode = "match" /\ zoneName # null /\ zoneName # <<>> =>
    /\ verdict <=> eitherWay(zoneName, zoneFilters)
    /\ \A i \in 1..Len(userZones) :
          /\ zoneMatchesFilters(zoneName, <<normalizeZone(userZones[i])>>)
               = zoneMatchesFilters(userZones[i], <<normalizeZone(zoneName)>>)
          /\ toLowerCase(zoneName) = toLowerCase(<<"T","h","e"," ">> \o userZones[i])
               => verdict

\* the name "Deep" matched the single filter "Timorous Deep": the name is a
\* substring of the filter and the filter is not a substring of the name
C22_Witness ==
  /\ mode = "match" /\ zoneName = Deep /\ userZones = <<TimorousDeep>> /\ verdict

\* C23: the matcher answers false whenever the filter list is empty, the zone
\* name is unknown (null) or empty, the name is empty after normalization,
\* or the only filters that would match are empty after normalization.
C23_EmptyNeverMatches ==
  mode = "match" /\ verdict =>
    /\ zoneName # null /\ zoneName # <<>> /\ zoneFilters # <<>>
    /\ normalizeZone(zoneName) # <<>>
    /\ eitherWay(zoneName, SelectSeq(zoneFilters, LAMBDA f : f # <<>>))

\* C23, the part the code keeps: the answer is false for an empty filter list
\* and for a null or empty zone name.
C23_EmptyListOrNoName ==
  mode = "match" /\ (zoneFilters = <<>> \/ zoneName = null \/ zoneName = <<>>) => ~verdict

\* the wall-clock time of the converted stamp belongs to one instant only
oneInstant ==
  \A v \in 0..(MaxInstant + 24) : v + TzOffset(timezone, v) = tsStr.hrs => v = written

\* C24: a wall-clock time that belongs to exactly one UTC instant is
\* converted to that instant, also in the hours before and after a
\* daylight-saving transition of the zone.
C24_DstExact ==
  mode = "clock" /\ written # noTime /\ oneInstant => utc = written

\* C24, the part the code keeps: the conversion is exact when the zone's
\* offset at the instant written is the offset the zone has at the instant
\* whose UTC fields are the wall-clock fields (zones without a transition,
\* and times further from a transition than the offset is long).
C24_SameOffsetBothSides ==
  mode = "clock" /\ written # noTime
     /\ TzOffset(timezone, tsStr.hrs) = TzOffset(timezone, written)
    => utc = written

\* the loot rows of raid raidId that carry event l's player and item in any
\* letter case and its timestamp
sameLoot(table, raidId, l) ==
  {i \in 1..Len(table) :
     /\ table[i].raid_id = raidId
     /\ toLowerCase(table[i].player_name) = toLowerCase(l.playerName)
     /\ toLowerCase(table[i].item_name) = toLowerCase(l.itemName)
     /\ table[i].looted_at = l.timestamp}

\* C25: a merge into an existing raid leaves every loot row in place and
\* appends rows of that raid only; an event whose player, item (in any letter
\* case) and timestamp the raid already holds adds no row, any other event
\* adds one row however often the body lists it; newLoot is the number of
\* rows added; and a merge that repeats the request before it adds no row
\* and returns newLoot = 0.
C25_MergeSkipsDuplicateLoot ==
  [][ (mode = "store" /\ call'.op = "merge" /\ call'.raidId <= raidsTable) =>
        /\ SubSeq(lootTable', 1, Len(lootTable)) = lootTable
        /\ \A i \in (Len(lootTable) + 1)..Len(lootTable') :
              lootTable'[i].raid_id = call'.raidId
        /\ returned'.newLoot = Len(lootTable') - Len(lootTable)
        /\ \A k \in 1..Len(call'.loot) :
              Cardinality(sameLoot(lootTable', call'.raidId, call'.loot[k]))
                = (IF sameLoot(lootTable, call'.raidId, call'.loot[k]) = {} THEN 1
                   ELSE Cardinality(sameLoot(lootTable, call'.raidId, call'.loot[k])))
        /\ repeated' => (lootTable' = lootTable /\ returned'.newLoot = 0)
    ]_vars

\* a merge of one event has just repeated the merge before it and returned
\* newLoot = 0, the raid holds the event once, and the other raid holds a row
C25_Witness ==
  /\ mode = "store" /\ call.op = "merge" /\ repeated
  /\ Len(call.loot) = 1 /\ returned.newLoot = 0
  /\ Cardinality(sameLoot(lootTable, call.raidId, call.loot[1])) = 1
  /\ \E i \in 1..Len(lootTable) : lootTable[i].raid_id # call.raidId

\* the footer lines a log of the running mode holds
footerLinesOf ==
  [tz \in Timezones |->
     {[bracket |-> TRUE, ts |-> t, content |-> c] :
        t \in FewStamps(tz), c \in {x \in UntimedContents : x.kind = "footer"}}]

footerLines == footerLinesOf[timezone]

\* loot lines whose instant passes the time gate of every mode (Wed 16:00 UTC)
timelyLootLinesOf ==
  [tz \in Timezones |->
     {[bracket |-> TRUE, ts |-> stampOf(tz, 88), content |-> c] :
        c \in {x \in TimedContents : x.kind \in {"selfLoot", "otherLoot"}}}]

timelyLootLines == timelyLootLinesOf[timezone]

\* the zone gate of the running mode applied to a zone name
zoneGate(z) ==
  IF mode \in {"batch", "rerun"} THEN zoneMatchesFilters(z, zoneFilters) ELSE isApprovedZone(z)

\* the handler reads the line's content: the line is inside the batch window,
\* or its timestamp is parseable in auto and live mode
reachesContent(line) ==
  IF mode \in {"batch", "rerun"}
  THEN ~Lt(instantOf(line), startTime) /\ ~Gt(instantOf(line), endTime)
  ELSE instantOf(line) # NaN

\* C26: a footer met inside a roster block flushes the block exactly when the
\* zone the footer names passes the zone gate, whatever the current zone is,
\* and in auto mode the session's zones then hold the footer's zone; a loot
\* line inside the time window met while the current zone does not pass the
\* gate adds no event, whatever zone the last footer named.
C26_FooterZoneForRosterCurrentZoneForLoot ==
  [](status = "scanning" =>
    /\ inWhoBlock =>
         \A line \in footerLines :
            reachesContent(line) =>
              LET n == handle(line) IN
              /\ (n.branch = "flush") <=> zoneGate(line.content.zone)
              /\ (n.branch = "flush" /\ mode = "auto") =>
                   \E i \in 1..Len(mapGet(n.sessionMap, utcDay(whoBlockTime)).zones) :
                      mapGet(n.sessionMap, utcDay(whoBlockTime)).zones[i] = line.content.zone
    /\ (~inWhoBlock /\ ~zonePasses) =>
         \A line \in timelyLootLines :
            LET n == handle(line) IN
            n.lootEvents = lootEvents /\ sessionLoot(n.sessionMap) = sessionLoot(sessionMap))

\* a roster was flushed on its footer's zone while the current zone, entered
\* before the block, does not pass the gate
C26_Witness ==
  /\ branch = "flush" /\ currentZone = FungusGrove /\ ~zoneGate(currentZone)
  /\ whoPlayers # <<>>
  /\ \E sc \in Scopes : sc.records # <<>>

\* the zone-entry lines a log of the running mode holds, with a timestamp
\* that parses
zoneEntryLines ==
  {[bracket |-> TRUE, ts |-> t, content |-> c] :
     t \in {x \in FewStamps(timezone) : parseEQDate(x) # NaN},
     c \in {x \in UntimedContents : x.kind = "zone"}}

\* a zone-entry line sets the current zone and leaves the roster block, and
\* the loot line after it is accepted exactly when that zone passes the filters
zoneEntryGatesLoot(z, l) ==
  LET a == parseLogLine(here, z)
      b == parseLogLine(a, l)
  IN  /\ a.currentZone = z.content.zone
      /\ ~a.inWhoBlock
      /\ (b.lootEvents # a.lootEvents) <=> zoneMatchesFilters(z.content.zone, zoneFilters)

\* C27: in batch mode every zone-entry line, also one stamped before
\* startTime, sets the current zone and forces the scan out of a roster
\* block, and a loot line inside the time window that follows it is accepted
\* exactly when the zone that line names passes the zone filters.
C27_EveryZoneEntryGatesLoot ==
  (mode = "batch" /\ status = "scanning") =>
    \A z \in zoneEntryLines : \A l \in timelyLootLines : zoneEntryGatesLoot(z, l)

\* C27, the part the code keeps: the same for the zone-entry lines stamped
\* inside the time window
C27_ZoneEntryInWindowGatesLoot ==
  (mode = "batch" /\ status = "scanning") =>
    \A z \in zoneEntryLines : \A l \in timelyLootLines :
       reachesContent(z) => zoneEntryGatesLoot(z, l)

\* what a line is: text that LINE_RE does not match, or the kind of its content
kindOf(line) == IF line.bracket THEN line.content.kind ELSE "unbracketed"

\* the handler leaves the scan state other than the pending buffer, and
\* everything recorded, as it is
keepsAllButBuffer(n) ==
  /\ n.inWhoBlock = inWhoBlock
  /\ n.currentZone = currentZone
  /\ n.whoBlockTime = whoBlockTime
  /\ n.attendanceMap = attendanceMap
  /\ n.lootEvents = lootEvents
  /\ n.zones = zones
  /\ n.sessionMap = sessionMap

\* the lines of a log other than start markers, with a timestamp inside every
\* window or one that does not parse
blockLines ==
  [tz \in Timezones |->
     {line \in FewLines(tz) :
        /\ kindOf(line) # "start"
        /\ line.bracket => line.ts \in {stampOf(tz, 88), badStamp(tz)}}]

\* C28: inside a roster block, a line that is not a zone entry, a start
\* marker or a footer leaves the scan in the block with the same zone and the
\* same block instant and records nothing (a loot line adds no loot event);
\* of these lines only a roster entry changes the pending buffer, by one
\* entry appended. A start marker opens a new block with an empty buffer.
C28_InBlockOnlyBlockLinesAct ==
  []((status = "scanning" /\ inWhoBlock) =>
    \A line \in blockLines[timezone] :
       LET n == handle(line) IN
       /\ kindOf(line) \notin {"zone", "start", "footer"} => keepsAllButBuffer(n)
       /\ kindOf(line) # "player" => n.whoPlayers = whoPlayers
       /\ (kindOf(line) = "player" /\ reachesContent(line)) =>
            /\ Len(n.whoPlayers) = Len(whoPlayers) + 1
            /\ SubSeq(n.whoPlayers, 1, Len(whoPlayers)) = whoPlayers)

\* a loot line was met inside a roster block that holds an entry, in a zone
\* that passes the zone gate, and the scan is still inside the block
C28_Witness ==
  /\ status = "scanning" /\ inWhoBlock /\ branch = "blockOther"
  /\ whoPlayers # <<>> /\ zonePasses
  /\ \E line \in timelyLootLines : handle(line).branch = "blockOther"

\* the lines of a log that are no zone entry, start marker, roster entry,
\* separator, footer or loot line
unmatchedLines ==
  {RawLine}
  \cup {[bracket |-> TRUE, ts |-> t, content |-> c] :
          t \in Stamps(timezone), c \in {x \in TimedContents : x.kind = "other"}}

\* C29: in every mode a line that matches none of the patterns leaves the
\* current zone, the roster-block state, the pending buffer, attendance, loot
\* and the session map (no session created, no session's zones, firstSeen or
\* lastSeen changed) as they are.
C29_UnmatchedLineInert ==
  status = "scanning" =>
    \A line \in unmatchedLines :
       LET n == handle(line) IN keepsAllButBuffer(n) /\ n.whoPlayers = whoPlayers

\* the attendance and the loot the sessions of a session map hold
sessionContents(sm) ==
  [i \in 1..Len(sm) |-> [key |-> sm[i].key, attendanceMap |-> sm[i].val.attendanceMap,
                         loot |-> sm[i].val.loot, firstSeen |-> sm[i].val.firstSeen]]

\* C29, the part the code keeps: such a line is inert in batch and live mode,
\* and in auto mode it changes nothing but the session map, where it adds no
\* attendance and no loot and leaves the sessions it found with their
\* attendance, loot and firstSeen
C29_InertButForAutoSession ==
  status = "scanning" =>
    \A line \in unmatchedLines :
       LET n == handle(line) IN
       /\ n.whoPlayers = whoPlayers
       /\ IF mode = "auto"
          THEN /\ keepsAllButBuffer([n EXCEPT !.sessionMap = sessionMap])
               /\ SubSeq(sessionContents(n.sessionMap), 1, Len(sessionMap))
                    = sessionContents(sessionMap)
               /\ \A i \in Len(sessionMap) + 1 .. Len(n.sessionMap) :
                     n.sessionMap[i].val.attendanceMap = <<>> /\ n.sessionMap[i].val.loot = <<>>
          ELSE keepsAllButBuffer(n)

\* the handler of the running mode applied in scan state s
handleIn(s, line) ==
  CASE mode \in {"batch", "rerun"} -> parseLogLine(s, line)
    [] mode = "auto" -> autoParseLine(s, line)
    [] OTHER -> processLine(s, line)

\* start markers whose instant is outside the recurrence window
lateStartLines ==
  {[bracket |-> TRUE, ts |-> stampOf(timezone, u), content |-> c] :
     u \in {x \in UtcSamples : ~inRecurrence(x)},
     c \in {x \in TimedContents : x.kind = "start"}}

\* roster entries and footers stamped Wed 16:00 UTC
timelyBlockLines(kind) ==
  {[bracket |-> TRUE, ts |-> stampOf(timezone, 88), content |-> c] :
     c \in {x \in UntimedContents : x.kind = kind}}

\* the attendance a scan state holds: the run's map, and the map of every
\* session that has one
recordedAttendance(s) ==
  <<s.attendanceMap,
    {<<s.sessionMap[i].key, s.sessionMap[i].val.attendanceMap>> :
       i \in {j \in 1..Len(s.sessionMap) : s.sessionMap[j].val.attendanceMap # <<>>}}>>

\* a start marker outside the window, a roster entry and a footer, read one
\* after the other, leave the recorded attendance as it is
lateBlockDiscarded(m, p, f) ==
  recordedAttendance(handleIn(handleIn(handleIn(here, m), p), f)) = recordedAttendance(here)

\* C30: in auto and live mode a roster entry that follows a start marker whose
\* instant is outside the recurrence window is never recorded by the footer
\* after it, also when the marker arrives while an earlier block that began
\* inside the window is still open.
C30_LateMarkerEntriesNeverRecorded ==
  (mode \in {"auto", "live"} /\ status = "scanning") =>
    \A m \in lateStartLines : \A p \in timelyBlockLines("player") :
       \A f \in timelyBlockLines("footer") : lateBlockDiscarded(m, p, f)

\* C30, the part the code keeps: the same when no roster block is open as the
\* marker arrives
C30_LateMarkerOutsideBlock ==
  (mode \in {"auto", "live"} /\ status = "scanning" /\ ~inWhoBlock) =>
    \A m \in lateStartLines : \A p \in timelyBlockLines("player") :
       \A f \in timelyBlockLines("footer") : lateBlockDiscarded(m, p, f)

\* the scan goes on with the next line unless the handler threw on the last one
scanOn(s, line) == IF s.branch = "throw" THEN s ELSE handleIn(s, line)

\* the lines of a log that are no zone entry, start marker, separator, footer
\* or roster entry: loot lines and other text with every timestamp text, and
\* text that LINE_RE does not match
strayLinesOf ==
  [tz \in Timezones |->
     {RawLine}
     \cup {[bracket |-> TRUE, ts |-> t, content |-> c] :
             t \in Stamps(tz), c \in {x \in TimedContents : x.kind # "start"}}]

\* two scan states hold the same block state and the same records
sameScan(a, b) == [a EXCEPT !.branch = "none"] = [b EXCEPT !.branch = "none"]

\* the stray line is skipped inside the block, and an entry and a footer read
\* after it are handled as they are without it
straySkipped(stray, p, f) ==
  LET n == handleIn(here, stray) IN
  /\ n.inWhoBlock /\ n.whoPlayers = whoPlayers
  /\ sameScan(scanOn(scanOn(n, p), f), handleIn(handleIn(here, p), f))

\* C31: in every mode, inside a roster block, a line that is no zone entry,
\* start marker, separator, footer or well-formed roster entry leaves the scan
\* in the block with the buffer as it is, and the roster entry and the footer
\* that follow it are handled as if the line had not been there.
C31_StrayLineInBlockSkipped ==
  (status = "scanning" /\ inWhoBlock) =>
    \A stray \in strayLinesOf[timezone] : \A p \in timelyBlockLines("player") :
       \A f \in timelyBlockLines("footer") : straySkipped(stray, p, f)

\* C31, the part the code keeps: the same for the stray lines whose timestamp
\* the running mode can read, and for every stray line in batch mode
C31_ReadableStrayLineSkipped ==
  (status = "scanning" /\ inWhoBlock) =>
    \A stray \in strayLinesOf[timezone] : \A p \in timelyBlockLines("player") :
       \A f \in timelyBlockLines("footer") :
          (mode = "batch" \/ ~stray.bracket \/ instantOf(stray) # NaN)
             => straySkipped(stray, p, f)

\* lowercase(trim(name)) with a single leading "the " removed
trimmedLowerNoArticle(name) ==
  LET t == toLowerCase(trim(name)) IN
  IF Len(t) >= 4 /\ SubSeq(t, 1, 4) = <<"t","h","e"," ">> THEN SubSeq(t, 5, Len(t)) ELSE t

\* the names normalizeZone was applied to when the matcher was asked about a
\* zone name: the name and the filters of opts.zones
normalizedNames ==
  IF zoneName = null THEN {} ELSE {zoneName} \cup {userZones[i] : i \in 1..Len(userZones)}

\* C32: normalizeZone(name) is lowercase(trim(name)) with a single leading
\* "the " removed, for every name the matcher normalizes: a zone name or a
\* filter, with or without blanks around it, the article alone included.
C32_NormalizeIsTrimLowerStrip ==
  mode = "match" =>
    \A name \in normalizedNames : normalizeZone(name) = trimmedLowerNoArticle(name)

\* C32, the part the code keeps: the two agree on every name that does not
\* begin with a blank and is more than the article
C32_NoLeadingBlank ==
  mode = "match" =>
    \A name \in normalizedNames :
       (name # <<>> /\ ~isSpace(name[1]) /\ toLowerCase(trim(name)) # <<"t","h","e">>)
          => normalizeZone(name) = trimmedLowerNoArticle(name)

\* the state of the scan and the aggregates
scanned ==
  <<status, branch, scan, lineCount, attendanceMap, lootEvents, zones, sessionMap, result>>

\* a step is a read pass that found stat.size <= this.offset
passFoundNoGrowth == passes' = passes + 1 /\ failures' = failures /\ Len(file) <= offset

\* C33: with another process appending to and truncating the file, the
\* offset never decreases; a pass that finds the size at or below the offset
\* leaves offset, carry-over, scan state and aggregates alone, hands no line
\* over and emits nothing; a pass reads only when the size is above the
\* offset, then exactly the bytes from the offset to the size; every file
\* position from the start offset to the offset was read once, and while the
\* file was never truncated the bytes read are the bytes appended.
C33_OffsetMonotoneReadOnce ==
  /\ [][ mode = "trunc" =>
           /\ offset' >= offset
           /\ passFoundNoGrowth =>
                 /\ offset' = offset /\ pendingChunk' = pendingChunk /\ todo' = <<>>
                 /\ read' = read /\ classified' = classified /\ emits' = emits
                 /\ UNCHANGED scanned
           /\ (read' # read \/ (offset' # offset /\ startSize # noSize)) =>
                 /\ passes' = passes + 1 /\ Len(file) > offset /\ offset' = Len(file)
                 /\ read' = read \o SubSeq(file, offset + 1, Len(file)) ]_vars
  /\ [](mode = "trunc" /\ startSize # noSize =>
           /\ Len(read) = offset - startSize
           /\ truncs = 0 => read = SubSeq(file, startSize + 1, offset))

\* the driver started at offset 1, the file was truncated, a pass found it
\* below the offset, and the next pass read the one byte appended past the
\* old offset
C33_Witness ==
  /\ mode = "trunc" /\ truncs = 1 /\ shrunk = 1 /\ startSize = 1 /\ passes = 2
  /\ offset = 2 /\ Len(file) = 2 /\ read = <<file[2]>>

\* a step is a read pass that ended in the catch of the stat or of the read
passFailed == passes' = passes + 1 /\ failures' = failures + 1

\* C34: a read pass that fails leaves the offset and the carried-over partial
\* line as they are, hands no line to the classifier and changes neither scan
\* state nor aggregates; so the passes together, failed ones among them, read
\* every file position from the start offset to the offset once, and while
\* the file was never truncated the bytes read are the bytes appended, each
\* once and in order.
C34_FailedPassChangesNothing ==
  /\ [][ (mode = "trunc" /\ passFailed) =>
           /\ offset' = offset /\ pendingChunk' = pendingChunk /\ todo' = <<>>
           /\ read' = read /\ classified' = classified /\ emits' = emits
           /\ UNCHANGED scanned ]_vars
  /\ [](mode = "trunc" /\ startSize # noSize /\ failures > errors =>
           /\ Len(read) = offset - startSize
           /\ truncs = 0 => read = streamRead)

\* a pass failed, and the pass after it read the three bytes appended since
\* the start in one piece
C34_Witness ==
  /\ mode = "trunc" /\ retried /\ truncs = 0 /\ startSize = 0 /\ passes = 2
  /\ Len(read) = 3 /\ classified # <<>>

\* a change notification was delivered to a started driver that was never
\* stopped: its debounce timeout is armed
changeDelivered == mode = "tail" /\ timers > 0 /\ stops = 0

\* C35: once a change notification was delivered to a started, never stopped
\* driver, a read pass eventually runs, and every byte that was in the file
\* when the notification was delivered is eventually read and every complete
\* line read is handed to the classifier, unless the driver is stopped first.
C35_NotifiedBytesProcessed ==
  \A n \in 0..MaxBytes : \A k \in 0..MaxNotify :
     (changeDelivered /\ Len(file) = n /\ passes = k)
        ~> (stops > 0
            \/ (passes > k /\ offset >= n /\ Len(classified) = Len(streamLines) - 1))

\* C35, the part the code keeps: the read pass eventually runs, unless the
\* driver is stopped first.
C35_PassEventuallyRuns ==
  \A k \in 0..MaxNotify :
     (changeDelivered /\ passes = k) ~> (stops > 0 \/ passes > k)

\* the instants a returned session records: the timestamps of its loot events
\* and the firstSeen of its attendance records
recordedInstants(s) ==
  {s.loot[i].timestamp : i \in 1..Len(s.loot)}
  \cup {s.attendance[i].firstSeen : i \in 1..Len(s.attendance)}

\* C36: of every session an auto-mode parse returns, firstSeen <= lastSeen,
\* firstSeen is at or before and lastSeen at or after the timestamp of each of
\* its loot events and the firstSeen of each of its attendance records, and a
\* session without attendance records lists only zones of its loot events.
C36_SessionSpansItsEvents ==
  mode = "auto" /\ status = "done" =>
    \A k \in 1..Len(result.sessions) :
       LET s == result.sessions[k] IN
       /\ s.firstSeen <= s.lastSeen
       /\ \A t \in recordedInstants(s) : s.firstSeen <= t /\ t <= s.lastSeen
       /\ s.attendance = <<>> =>
             \A i \in 1..Len(s.zones) : \E j \in 1..Len(s.loot) : s.loot[j].zone = s.zones[i]

\* C36, the part the code keeps: firstSeen <= lastSeen, and lastSeen is at or
\* after every recorded instant
C36_LastSeenBounds ==
  mode = "auto" /\ status = "done" =>
    \A k \in 1..Len(result.sessions) :
       LET s == result.sessions[k] IN
       /\ s.firstSeen <= s.lastSeen
       /\ \A t \in recordedInstants(s) : t <= s.lastSeen

\* the keys of an attendance map
keysOf(m) == {m[i].key : i \in 1..Len(m)}

\* what the live watcher publishes on a line and what the line does to the
\* aggregates agree
inStep(line) ==
  LET n  == processLine(here, line)
      ev == emitted(here, line, n)
      c  == line.content
  IN
  /\ Len(ev) <= 1
  /\ n.lootEvents # lootEvents =>
        /\ Len(n.lootEvents) = Len(lootEvents) + 1
        /\ SubSeq(n.lootEvents, 1, Len(lootEvents)) = lootEvents
        /\ Len(ev) = 1 /\ ev[1].type = "loot"
        /\ LET x == n.lootEvents[Len(n.lootEvents)] IN
           /\ ev[1].playerName = x.playerName /\ ev[1].itemName = x.itemName
           /\ ev[1].zone = x.zone /\ x.zone = currentZone /\ x.itemName = c.item
           /\ x.playerName = IF c.kind = "selfLoot" THEN characterName ELSE c.player
  /\ (ev # <<>> /\ ev[1].type = "loot") => n.lootEvents # lootEvents
  /\ (line.bracket /\ c.kind = "zone" /\ n.branch # "throw")
        => (Len(ev) = 1 /\ ev[1].type = "zone" /\ ev[1].zone = c.zone)
  /\ (ev # <<>> /\ ev[1].type = "zone") => line.bracket /\ c.kind = "zone"
  /\ (ev # <<>> /\ ev[1].type = "attendance") =>
        /\ inWhoBlock /\ line.bracket /\ c.kind = "footer" /\ isApprovedZone(c.zone)
        /\ ev[1].zone = c.zone
        /\ ev[1].total = Len(n.attendanceMap)
        /\ Len(ev[1].newPlayers) = Len(n.attendanceMap) - Len(attendanceMap)
        /\ {attendanceKey(ev[1].newPlayers[i]) : i \in 1..Len(ev[1].newPlayers)}
             = keysOf(n.attendanceMap) \ keysOf(attendanceMap)
  /\ n.attendanceMap # attendanceMap => (ev # <<>> /\ ev[1].type = "attendance")

\* C37: in a live run each line that adds a loot element adds exactly one and
\* publishes one loot event with that element's player, item and zone; each
\* zone-entry line publishes one zone event; an attendance event is published
\* only at the footer of an approved zone inside a block, its total is the
\* number of attendance records and its newPlayers are exactly the entries
\* whose names that flush inserted.
C37_EventsMatchAggregates ==
  (mode = "live" /\ status = "scanning") => \A line \in logLines[timezone] : inStep(line)

\* a flush whose block named the same participant twice, in two spellings:
\* two buffered entries, one attendance record
C37_Witness ==
  /\ mode = "live" /\ branch = "flush" /\ Len(whoPlayers) = 2 /\ Len(attendanceMap) = 1
  /\ whoPlayers[1].name # whoPlayers[2].name

\* the attendance rows of the raid created last that name the member
rowsOf(member) ==
  {voiceAttendance[i] : i \in {j \in 1..Len(voiceAttendance) :
       /\ voiceAttendance[j].raid_id = Len(raids)
       /\ voiceAttendance[j].player_name = playerNameOf(member)}}

\* no stored row disappears or changes its raid, its name or its first_seen
firstSeenKept ==
  \A i \in 1..Len(voiceAttendance) :
     /\ i <= Len(voiceAttendance')
     /\ voiceAttendance'[i].raid_id = voiceAttendance[i].raid_id
     /\ voiceAttendance'[i].player_name = voiceAttendance[i].player_name
     /\ voiceAttendance'[i].first_seen = voiceAttendance[i].first_seen

\* C38: in the voice tracker a stored first_seen never changes, and in a raid
\* whose event was started once and not updated since, the row of a member
\* taken into the raid carries the time of the member's first join as
\* first_seen, and once the event has completed every tracked member who was
\* in the raid voice channel at that moment has last_seen = the completion
\* time, a member who had left and come back included.
C38_FirstJoinKeptLastSeenAtEnd ==
  /\ [][mode = "voice" => firstSeenKept]_vars
  /\ [](mode = "voice" /\ updates = 0 =>
          \A m \in Members :
             joined[m] # noTime =>
               /\ rowsOf(m) # {}
               /\ \A r \in rowsOf(m) : r.first_seen = joined[m]
               /\ (event = "completed" /\ m \in presentAtEnd) =>
                     \A r \in rowsOf(m) : r.last_seen = endedAt)

\* C38, the part the code keeps: a stored first_seen never changes; while no
\* update arrived for the running event the row of a tracked member carries
\* the time of the first join; and after completion every tracked member has
\* a last_seen, which is not later than the completion time.
C38_FirstSeenKept ==
  /\ [][mode = "voice" => firstSeenKept]_vars
  /\ [](mode = "voice" /\ updates = 0 =>
          \A m \in Members :
             joined[m] # noTime =>
               /\ rowsOf(m) # {}
               /\ \A r \in rowsOf(m) : r.first_seen = joined[m]
               /\ event = "completed" =>
                     \A r \in rowsOf(m) : r.last_seen # noTime /\ r.last_seen <= endedAt)

\* every member the tracker holds stays tracked with the same firstSeen
membersKept ==
  activeRaid # noRaid =>
    /\ activeRaid' # noRaid
    /\ \A i \in 1..Len(activeRaid.members) :
          /\ mapHas(activeRaid'.members, activeRaid.members[i].key)
          /\ mapGet(activeRaid'.members, activeRaid.members[i].key).firstSeen
               = activeRaid.members[i].val.firstSeen

\* C39: the scheduled event creates one raid row and one activeRaid when it
\* becomes active; an update notification for the event while it is active
\* creates no raid row, keeps the raid id and keeps every tracked member; a
\* raid is active exactly while the event is.
C39_OneRaidPerEvent ==
  /\ [][(mode = "voice" /\ event = "active" /\ updates' = updates + 1) =>
          /\ raids' = raids
          /\ activeRaid'.raidId = activeRaid.raidId
          /\ membersKept]_vars
  /\ [](mode = "voice" =>
          /\ Len(raids) = IF event = "scheduled" THEN 0 ELSE 1
          /\ (activeRaid # noRaid) <=> (event = "active"))

\* C39, the part the code keeps: the start of the event creates one row and
\* the activeRaid of that row, which lasts exactly while the event is active
C39_StartCreatesOneRaid ==
  /\ [][(mode = "voice" /\ event = "scheduled" /\ event' = "active") =>
          /\ Len(raids') = Len(raids) + 1
          /\ activeRaid'.raidId = Len(raids')]_vars
  /\ [](mode = "voice" =>
          /\ Len(raids) = IF event = "scheduled" THEN 0 ELSE 1 + updates
          /\ (activeRaid # noRaid) <=> (event = "active")
          /\ activeRaid # noRaid => activeRaid.raidId = Len(raids))

====
